---- MODULE Spec2Model ----
(***************************************************************************)
(* The world-simulation engine of src/context/GameContext.tsx: the store   *)
(* (inventory, balances, resource nodes, structures, agents, event and     *)
(* build-mode flags), the periodic processes (economic tick, event         *)
(* scheduler, market adapter, agent loop) and the pending one-shot timers. *)
(*                                                                         *)
(* Units.  Lengths are tenths of a world unit (x = 15 is 1.5).  Heights    *)
(* are thousandths.  Angles given to Sin/Cos are milliradians; headings    *)
(* are eighths of a turn.  Money is a record [d, n] of whole dollars and   *)
(* nano-dollars, because the pot (10^4 $) and the per-tick draw            *)
(* (8.3 * 10^-5 $) do not fit one machine integer of the checker together. *)
(* marketModifier is in tenths (10 is 1.0).                                *)
(***************************************************************************)
EXTENDS Integers, Sequences, FiniteSets, TLC

----------------------------------------------------------------------------
(* Item taxonomy, events, agent actions                                    *)

ItemType ==
    {"STONE", "METAL_ORE", "COPPER_ORE", "WOOD", "RESIN", "COAL", "SCRAP",
     "SILICON", "STEEL", "COPPER_WIRE", "PLASTIC",
     "CIRCUIT_BOARD", "FRAME",
     "MINING_RIG", "FOUNDATION", "WALL", "ROOF"}

GameEvent == {"NONE", "ACID_RAIN", "AD_BREAK"}

AIAction == {"IDLE", "MOVING", "MINING"}

NodeType == {"TREE", "STONE", "METAL", "COPPER", "COAL", "JUNK", "LOOSE_ITEM"}

\* The four item kinds the inventory panel offers a "Place" button for.
Placeable == {"MINING_RIG", "FOUNDATION", "WALL", "ROOF"}

AD_REVENUE == 1000
MAX_POT == 10000
\* OWNER_FEE = 0.05 and BRAND_SPLIT = 0.50, as percentages.
OWNER_FEE == 5
BRAND_SPLIT == 50
\* BASE_MINING_RATE = 0.000083 $/s per rig, in nano-dollars.
BASE_MINING_RATE == 83000

In(item, count) == [item |-> item, count |-> count]

RECIPES ==
    << [output |-> "SILICON", count |-> 1,
        inputs |-> << In("STONE", 2), In("COAL", 1) >>],
       [output |-> "STEEL", count |-> 1,
        inputs |-> << In("METAL_ORE", 2), In("COAL", 1) >>],
       [output |-> "COPPER_WIRE", count |-> 2,
        inputs |-> << In("COPPER_ORE", 1), In("COAL", 1) >>],
       [output |-> "PLASTIC", count |-> 1,
        inputs |-> << In("RESIN", 2), In("COAL", 1) >>],
       [output |-> "CIRCUIT_BOARD", count |-> 1,
        inputs |-> << In("SILICON", 2), In("COPPER_WIRE", 3), In("PLASTIC", 1) >>],
       [output |-> "FRAME", count |-> 1,
        inputs |-> << In("STEEL", 4), In("SCRAP", 2) >>],
       [output |-> "MINING_RIG", count |-> 1,
        inputs |-> << In("CIRCUIT_BOARD", 3), In("FRAME", 1), In("PLASTIC", 2) >>],
       [output |-> "FOUNDATION", count |-> 1,
        inputs |-> << In("STONE", 4), In("WOOD", 1) >>],
       [output |-> "WALL", count |-> 1,
        inputs |-> << In("WOOD", 4) >>],
       [output |-> "ROOF", count |-> 1,
        inputs |-> << In("WOOD", 4) >> ] >>

----------------------------------------------------------------------------
(* Money: [d |-> dollars, n |-> nano-dollars], 0 <= n < 10^9               *)

NanoPerDollar == 1000 * 1000 * 1000

Norm(d, n) == [d |-> d + (n \div NanoPerDollar), n |-> n % NanoPerDollar]
Dollars(k) == [d |-> k, n |-> 0]
Nanos(k) == Norm(0, k)
MZero == Dollars(0)
MAdd(a, b) == Norm(a.d + b.d, a.n + b.n)
MSub(a, b) == Norm(a.d - b.d, a.n - b.n)
MLess(a, b) == a.d < b.d \/ (a.d = b.d /\ a.n < b.n)
MLeq(a, b) == a = b \/ MLess(a, b)
MMax(a, b) == IF MLess(a, b) THEN b ELSE a
MMin(a, b) == IF MLess(a, b) THEN a ELSE b
\* a * p / 100, exact whenever a.n * p is a multiple of 100.
MPercent(a, p) ==
    LET dp == a.d * p
    IN  Norm(dp \div 100,
             (dp % 100) * (NanoPerDollar \div 100)
               + (a.n \div 100) * p + ((a.n % 100) * p) \div 100)

----------------------------------------------------------------------------
(* Terrain height: the sum of sinusoids of getTerrainHeight, in fixed      *)
(* point.  Sin takes milliradians and returns thousandths.                 *)

PiMilli == 3142

SinReduced(a) ==
    LET x2 == (a * a) \div 1000
        t3 == (a * x2) \div 6000
        t5 == (t3 * x2) \div 20000
        t7 == (t5 * x2) \div 42000
        t9 == (t7 * x2) \div 72000
    IN  a - t3 + t5 - t7 + t9

Sin(m) ==
    LET a == ((m + PiMilli) % (2 * PiMilli)) - PiMilli
        b == IF a > PiMilli \div 2 THEN PiMilli - a
             ELSE IF a < -(PiMilli \div 2) THEN -PiMilli - a
             ELSE a
    IN  SinReduced(b)

Cos(m) == Sin(m + PiMilli \div 2)

\* x, z in tenths of a unit; the result in thousandths.
getTerrainHeight(x, z) ==
    LET largeScale == (Sin(2 * x) + Cos(2 * z)) * 4
        mediumScale == (Sin(5 * x + 1000) + Cos(5 * z + 2000)) * 2
        smallScale == (Sin(15 * x) * Cos(15 * z)) \div 2000
    IN  largeScale + mediumScale + smallScale

----------------------------------------------------------------------------
(* State                                                                   *)

VARIABLES
    inventory,       \* player inventory: ItemType -> count
    money,           \* player wallet
    globalPot,
    ownerBalance,
    marketModifier,  \* tenths
    activeEvent,
    isMenuOpen,
    buildMode,       \* [active, type, rotation], rotation in quarter turns
    resources,       \* sequence of resource nodes (array order matters to find)
    structures,      \* sequence of structures
    aiPlayers,       \* sequence of agents
    playerPosRef,    \* <<x, z, dirX, dirZ>>
    timers,          \* pending one-shot callbacks, in the order they were set
    nextId,          \* source of the unique ids (Date.now() / Math.random())
    mounted,         \* the provider is mounted: its effect cleanups have not run
    last,            \* the operation that made the last step, with its result
    budget           \* how many more of each bounded kind of step may be taken

vars == << inventory, money, globalPot, ownerBalance, marketModifier,
           activeEvent, isMenuOpen, buildMode, resources, structures,
           aiPlayers, playerPosRef, timers, nextId, mounted, last, budget >>

\* ownerId undefined (ids start at 1), targetNodeId null, type null.
NoOwner == 0
NoTarget == -1
NoType == "null"

\* position: [number, number, number]; y in thousandths.
Pos(x, y, z) == << x, y, z >>

\* The hiding place of a depleted node: [0, -1000, 0].
HiddenPos == Pos(0, -1000000, 0)

EmptyInv == [i \in ItemType |-> 0]

BuildOff == [active |-> FALSE, type |-> NoType, rotation |-> 0]

----------------------------------------------------------------------------
(* Timers.  A timer is [kind, arg, lo, hi]: it fires lo..hi milliseconds   *)
(* after it was set.  No clock is kept: a pending timer may fire unless an *)
(* older pending timer is certain to be due no later.                      *)

Timer(kind, arg, lo, hi) == [kind |-> kind, arg |-> arg, lo |-> lo, hi |-> hi]

CanFire(i) ==
    /\ i \in 1..Len(timers)
    /\ \A j \in 1..(i - 1) : timers[j].hi > timers[i].lo

RemoveAt(s, i) == SubSeq(s, 1, i - 1) \o SubSeq(s, i + 1, Len(s))

SelectIdx(s, Test(_)) == { i \in 1..Len(s) : Test(s[i]) }

\* Array.find: the first element passing the test, as a sequence of 0 or 1.
Find(s, Test(_)) ==
    LET hits == SelectIdx(s, Test)
    IN  IF hits = {} THEN << >>
        ELSE << s[CHOOSE i \in hits : \A j \in hits : i <= j] >>

Filter(s, Test(_)) == SelectSeq(s, Test)

\* F applied to the value of v: a local constant of the source, computed
\* once however often it is read.
Let(v, F(_)) == CHOOSE r \in { F(u) : u \in { v } } : TRUE

Map(s, F(_)) == [i \in 1..Len(s) |-> F(s[i])]

----------------------------------------------------------------------------
(* The store as one value.  Every operation below is a function from the   *)
(* store before to the store after, as the setState updaters of the source *)
(* are: each reads the latest committed value.                             *)

Store ==
    [inventory |-> inventory, money |-> money, globalPot |-> globalPot,
     ownerBalance |-> ownerBalance, marketModifier |-> marketModifier,
     activeEvent |-> activeEvent, isMenuOpen |-> isMenuOpen,
     buildMode |-> buildMode, resources |-> resources,
     structures |-> structures, aiPlayers |-> aiPlayers,
     playerPosRef |-> playerPosRef, timers |-> timers, nextId |-> nextId]

Commit(s) ==
    /\ inventory' = s.inventory
    /\ money' = s.money
    /\ globalPot' = s.globalPot
    /\ ownerBalance' = s.ownerBalance
    /\ marketModifier' = s.marketModifier
    /\ activeEvent' = s.activeEvent
    /\ isMenuOpen' = s.isMenuOpen
    /\ buildMode' = s.buildMode
    /\ resources' = s.resources
    /\ structures' = s.structures
    /\ aiPlayers' = s.aiPlayers
    /\ playerPosRef' = s.playerPosRef
    /\ timers' = s.timers
    /\ nextId' = s.nextId

setTimeout(s, kind, arg, lo, hi) ==
    [s EXCEPT !.timers = Append(@, Timer(kind, arg, lo, hi))]

----------------------------------------------------------------------------
(* Inventory and crafting                                                  *)

addToInventory(s, item, count) ==
    [s EXCEPT !.inventory[item] = @ + count]

\* SubtractInputs that deducts the first input only.
SubtractFirstInput(inv, inputs, k) ==
    IF Len(inputs) = 0 THEN inv
    ELSE [inv EXCEPT ![inputs[1].item] = @ - inputs[1].count]

RECURSIVE SubtractInputs(_, _, _)
SubtractInputs(inv, inputs, k) ==
    IF k > Len(inputs) THEN inv
    ELSE SubtractInputs([inv EXCEPT ![inputs[k].item] = @ - inputs[k].count],
                        inputs, k + 1)

HasInputs(inv, recipe) ==
    \A k \in 1..Len(recipe.inputs) :
        ~(inv[recipe.inputs[k].item] < recipe.inputs[k].count)

\* craftInventory without the availability check.
craftInventoryUnchecked(currentInv, recipe) ==
    LET newInv == SubtractInputs(currentInv, recipe.inputs, 1)
    IN  [newInv EXCEPT ![recipe.output] = @ + recipe.count]

\* The setInventory updater of craft.
craftInventory(currentInv, recipe) ==
    IF ~HasInputs(currentInv, recipe) THEN currentInv
    ELSE LET newInv == SubtractInputs(currentInv, recipe.inputs, 1)
         IN  [newInv EXCEPT ![recipe.output] = @ + recipe.count]

craft(s, recipe) == [s EXCEPT !.inventory = craftInventory(@, recipe)]

\* What craft returns to its caller.
craftReturn(s, recipe) == TRUE

----------------------------------------------------------------------------
(* Build mode                                                              *)

startBuildMode(s, type) ==
    [s EXCEPT !.buildMode = [active |-> TRUE, type |-> type, rotation |-> 0],
              !.isMenuOpen = FALSE]

cancelBuildMode(s) == [s EXCEPT !.buildMode = BuildOff]

rotateBuild(s) == [s EXCEPT !.buildMode.rotation = @ + 1]

toggleMenu(s) ==
    [s EXCEPT !.isMenuOpen = ~@, !.buildMode.active = FALSE]

Structure(id, type, position, rotation, ownerId) ==
    [id |-> id, type |-> type, position |-> position, rotation |-> rotation,
     ownerId |-> ownerId]

\* confirmBuild that leaves build mode on after the last unit.
confirmBuildStaysOpen(s, position) ==
    LET currentBuild == s.buildMode
        type == currentBuild.type
    IN  IF ~currentBuild.active \/ type = NoType THEN s
        ELSE IF s.inventory[type] > 0
        THEN [s EXCEPT !.structures =
                           Append(@, Structure(s.nextId, type, position,
                                               currentBuild.rotation, NoOwner)),
                       !.nextId = @ + 1,
                       !.inventory[type] = @ - 1]
        ELSE s

\* confirmBuild without the test that a unit is held.
confirmBuildUnheld(s, position) ==
    LET currentBuild == s.buildMode
        type == currentBuild.type
    IN  IF ~currentBuild.active \/ type = NoType THEN s
        ELSE LET newCount == s.inventory[type] - 1
                 built == [s EXCEPT !.structures =
                                        Append(@, Structure(s.nextId, type, position,
                                                            currentBuild.rotation,
                                                            NoOwner)),
                                    !.nextId = @ + 1,
                                    !.inventory[type] = newCount]
             IN  IF newCount <= 0
                 THEN setTimeout(built, "closeBuild", 0, 0, 0)
                 ELSE built

confirmBuild(s, position) ==
    LET currentBuild == s.buildMode
        type == currentBuild.type
    IN  IF ~currentBuild.active \/ type = NoType THEN s
        ELSE IF s.inventory[type] > 0
        THEN LET newStruct == Structure(s.nextId, type, position,
                                        currentBuild.rotation, NoOwner)
                 newCount == s.inventory[type] - 1
                 built == [s EXCEPT !.structures = Append(@, newStruct),
                                    !.nextId = @ + 1,
                                    !.inventory[type] = newCount]
             IN  IF newCount <= 0
                 THEN setTimeout(built, "closeBuild", 0, 0, 0)
                 ELSE built
        ELSE s

\* The zero-delay callback confirmBuild schedules.
closeBuild(s) == [s EXCEPT !.buildMode = BuildOff]

----------------------------------------------------------------------------
(* Structures                                                              *)

HasId(seq, id) == \E i \in 1..Len(seq) : seq[i].id = id
ById(seq, id) == seq[CHOOSE i \in 1..Len(seq) :
                        seq[i].id = id /\ \A j \in 1..(i - 1) : seq[j].id # id]
WithoutId(seq, id) == LET Keep(e) == e.id # id IN SelectSeq(seq, Keep)

\* pickupStructure that does not look at the owner.
pickupStructureAny(s, id) ==
    IF ~HasId(s.structures, id) THEN s
    ELSE LET struct == ById(s.structures, id)
         IN  [addToInventory(s, struct.type, 1)
                 EXCEPT !.structures = WithoutId(@, id)]

pickupStructure(s, id) ==
    IF ~HasId(s.structures, id) THEN s
    ELSE LET struct == ById(s.structures, id)
         IN  IF struct.ownerId # NoOwner THEN s
             ELSE [addToInventory(s, struct.type, 1)
                       EXCEPT !.structures = WithoutId(@, id)]

\* claimStructure that clears the owner of every structure.
claimStructureAll(s, id) ==
    LET Claim(e) == [e EXCEPT !.ownerId = NoOwner]
    IN  [s EXCEPT !.structures = Map(@, Claim)]

claimStructure(s, id) ==
    LET Claim(e) == IF e.id = id /\ e.ownerId # NoOwner
                    THEN [e EXCEPT !.ownerId = NoOwner]
                    ELSE e
    IN  [s EXCEPT !.structures = Map(@, Claim)]

RecipeFor(type) ==
    LET IsFor(r) == r.output = type IN Find(RECIPES, IsFor)

\* Refund that returns the first input only.
RefundFirst(s, inputs, k) ==
    IF Len(inputs) = 0 THEN s
    ELSE addToInventory(s, inputs[1].item, inputs[1].count)

RECURSIVE Refund(_, _, _)
Refund(s, inputs, k) ==
    IF k > Len(inputs) THEN s
    ELSE Refund(addToInventory(s, inputs[k].item, inputs[k].count), inputs, k + 1)

hitStructure(s, id) ==
    IF ~HasId(s.structures, id) THEN s
    ELSE LET struct == ById(s.structures, id)
             recipe == RecipeFor(struct.type)
             refunded == IF recipe # << >>
                         THEN Refund(s, recipe[1].inputs, 1)
                         ELSE addToInventory(s, struct.type, 1)
         IN  [refunded EXCEPT !.structures = WithoutId(@, id)]

----------------------------------------------------------------------------
(* Resource nodes                                                          *)

Node(id, type, position, health, maxHealth, drop) ==
    [id |-> id, type |-> type, position |-> position, health |-> health,
     maxHealth |-> maxHealth, drop |-> drop]

\* The drop and maxHealth generateResources gives each node type.
NodeAttrs(type) ==
    CASE type = "TREE" -> [drop |-> "WOOD", maxHealth |-> 4]
      [] type = "STONE" -> [drop |-> "STONE", maxHealth |-> 3]
      [] type = "COAL" -> [drop |-> "COAL", maxHealth |-> 2]
      [] type = "COPPER" -> [drop |-> "COPPER_ORE", maxHealth |-> 4]
      [] type = "METAL" -> [drop |-> "METAL_ORE", maxHealth |-> 5]
      [] type = "JUNK" -> [drop |-> "SCRAP", maxHealth |-> 2]

\* rolls[i] = [type, x, z]: the outcome of the three Math.random() calls of
\* iteration i.  The node of iteration i has id i; an underwater draw of a
\* type other than JUNK is skipped.
RECURSIVE generateResources(_, _)
generateResources(rolls, i) ==
    IF i > Len(rolls) THEN << >>
    ELSE LET r == rolls[i]
             y == getTerrainHeight(r.x, r.z)
             a == NodeAttrs(r.type)
         IN  IF y < -2500 /\ r.type # "JUNK"
             THEN generateResources(rolls, i + 1)
             ELSE << Node(i, r.type, Pos(r.x, y, r.z), a.maxHealth,
                          a.maxHealth, a.drop) >>
                  \o generateResources(rolls, i + 1)

\* The respawn callback destroyNode schedules; d1 and d2 are the first and
\* the second random draw of <<rx, rz>>.
respawnNode(s, id, d1, d2) ==
    LET Place(r) ==
            IF r.id # id THEN r
            ELSE LET ry1 == getTerrainHeight(d1[1], d1[2])
                     again == ry1 < -2000 /\ r.type # "JUNK"
                     rx == IF again THEN d2[1] ELSE d1[1]
                     rz == IF again THEN d2[2] ELSE d1[2]
                     ry == IF again THEN getTerrainHeight(rx, rz) ELSE ry1
                 IN  [r EXCEPT !.health = r.maxHealth,
                               !.position = Pos(rx, ry, rz)]
    IN  [s EXCEPT !.resources = Map(@, Place)]

\* destroyNode that schedules no respawn.
destroyNodeForGood(s, id) ==
    IF ~HasId(s.resources, id) THEN s
    ELSE LET node == ById(s.resources, id)
             Hide(n) == IF n.id = id
                        THEN [n EXCEPT !.health = 0, !.position = HiddenPos]
                        ELSE n
         IN  IF node.type = "LOOSE_ITEM"
             THEN [s EXCEPT !.resources = WithoutId(@, id)]
             ELSE [s EXCEPT !.resources = Map(@, Hide)]

destroyNode(s, id) ==
    IF ~HasId(s.resources, id) THEN s
    ELSE LET node == ById(s.resources, id)
             Hide(n) == IF n.id = id
                        THEN [n EXCEPT !.health = 0, !.position = HiddenPos]
                        ELSE n
         IN  IF node.type = "LOOSE_ITEM"
             THEN [s EXCEPT !.resources = WithoutId(@, id)]
             ELSE [setTimeout(s, "respawn", id, 15000, 30000)
                      EXCEPT !.resources = Map(@, Hide)]

\* hitNode without the test for a depleted node.
hitNodeDepleted(s, id, isBot) ==
    IF ~HasId(s.resources, id) THEN s
    ELSE LET node == ById(s.resources, id)
             newHealth == node.health - 1
             Dec(r) == IF r.id = id THEN [r EXCEPT !.health = newHealth] ELSE r
         IN  [s EXCEPT !.resources = Map(@, Dec)]

\* hitNode that rewards the player whoever made the hit.
hitNodeRewardsAll(s, id, isBot) ==
    IF ~HasId(s.resources, id) THEN s
    ELSE LET node == ById(s.resources, id)
             newHealth == node.health - 1
             one == addToInventory(s, node.drop, 1)
             rewarded == IF node.type = "TREE"
                         THEN addToInventory(one, "RESIN", 1)
                         ELSE one
         IN  IF node.health <= 0 THEN s
             ELSE IF newHealth <= 0
             THEN LET Zero(r) == IF r.id = id THEN [r EXCEPT !.health = 0] ELSE r
                  IN  [setTimeout(rewarded, "destroyNode", id, 0, 0)
                          EXCEPT !.resources = Map(@, Zero)]
             ELSE LET Dec(r) == IF r.id = id
                                THEN [r EXCEPT !.health = newHealth] ELSE r
                  IN  [s EXCEPT !.resources = Map(@, Dec)]

hitNode(s, id, isBot) ==
    IF ~HasId(s.resources, id) THEN s
    ELSE LET node == ById(s.resources, id)
             newHealth == node.health - 1
             rewarded ==
                 IF isBot THEN s
                 ELSE LET one == addToInventory(s, node.drop, 1)
                      IN  IF node.type = "TREE"
                          THEN addToInventory(one, "RESIN", 1)
                          ELSE one
         IN  IF node.health <= 0 THEN s
             ELSE IF newHealth <= 0
             THEN LET Zero(r) == IF r.id = id THEN [r EXCEPT !.health = 0] ELSE r
                  IN  [setTimeout(rewarded, "destroyNode", id, 0, 0)
                          EXCEPT !.resources = Map(@, Zero)]
             ELSE LET Dec(r) == IF r.id = id
                                THEN [r EXCEPT !.health = newHealth] ELSE r
                  IN  [s EXCEPT !.resources = Map(@, Dec)]

LooseItem(id, x, y, z, item) == Node(id, "LOOSE_ITEM", Pos(x, y, z), 1, 1, item)

\* offsets[i] = <<offsetX, offsetZ>> of drop i, each (Math.random() - 0.5) * 1.5.
\* spawnLoot without the cap of ten.
spawnLootUncapped(s, pos, item, count, offsets) ==
    LET newNodes == [i \in 1..count |->
                        LET o == offsets[((i - 1) % Len(offsets)) + 1]
                            nx == pos[1] + o[1]
                            nz == pos[3] + o[2]
                            ny == getTerrainHeight(nx, nz) + 500
                        IN  LooseItem(s.nextId + i - 1, nx, ny, nz, item)]
    IN  [s EXCEPT !.resources = @ \o newNodes, !.nextId = @ + count]

spawnLoot(s, pos, item, count, offsets) ==
    LET dropCount == IF count < 10 THEN count ELSE 10
        newNodes == [i \in 1..dropCount |->
                        LET nx == pos[1] + offsets[i][1]
                            nz == pos[3] + offsets[i][2]
                            ny == getTerrainHeight(nx, nz) + 500
                        IN  LooseItem(s.nextId + i - 1, nx, ny, nz, item)]
    IN  [s EXCEPT !.resources = @ \o newNodes, !.nextId = @ + dropCount]

\* dropItem without the test that the item is held.
dropItemUnheld(s, item, randomOffset) ==
    LET nx == s.playerPosRef[1] + s.playerPosRef[4] * 15
        nz == s.playerPosRef[3] + s.playerPosRef[5] * 15
    IN  [s EXCEPT !.resources = Append(@, LooseItem(s.nextId, nx,
                                                   getTerrainHeight(nx, nz), nz, item)),
                  !.nextId = @ + 1,
                  !.inventory[item] = @ - 1]

\* randomOffset is (Math.random() - 0.5) * 0.2.
dropItem(s, item, randomOffset) ==
    IF s.inventory[item] > 0
    THEN LET px == s.playerPosRef[1]
             pz == s.playerPosRef[3]
             dx == s.playerPosRef[4]
             dz == s.playerPosRef[5]
             nx == px + dx * 15 + (-dz) * randomOffset
             nz == pz + dz * 15 + dx * randomOffset
             ny == getTerrainHeight(nx, nz)
         IN  [s EXCEPT !.resources = Append(@, LooseItem(s.nextId, nx, ny, nz, item)),
                       !.nextId = @ + 1,
                       !.inventory[item] = @ - 1]
    ELSE s

----------------------------------------------------------------------------
(* Collision oracle.  sqrt(dx*dx + dz*dz) < r is compared as               *)
(* dx*dx + dz*dz < r*r, in tenths.                                         *)

NoIgnore == -2

\* Near with <= in place of <.
NearInclusive(x, z, position, r) ==
    LET dx == x - position[1]
        dz == z - position[3]
    IN  dx * dx + dz * dz <= r * r

Near(x, z, position, r) ==
    LET dx == x - position[1]
        dz == z - position[3]
    IN  dx * dx + dz * dz < r * r

structRadius(type) ==
    IF type = "MINING_RIG" THEN 5
    ELSE IF type = "WALL" THEN 15
    ELSE IF type = "FOUNDATION" THEN 20
    ELSE 10

\* res, structs, ais: what resourcesRef, structuresRef and aiPlayersRef hold.
checkCollision(res, structs, ais, player, x, z, ignoreId) ==
    \/ x < -980 \/ x > 980 \/ z < -980 \/ z > 980
    \/ \E i \in 1..Len(res) :
          /\ res[i].type # "LOOSE_ITEM"
          /\ Near(x, z, res[i].position,
                  5 + (IF res[i].type = "TREE" THEN 5 ELSE 10))
    \/ \E i \in 1..Len(structs) :
          Near(x, z, structs[i].position, 5 + structRadius(structs[i].type))
    \/ \E i \in 1..Len(ais) :
          ais[i].id # ignoreId /\ Near(x, z, ais[i].position, 10)
    \/ /\ ignoreId # NoIgnore
       /\ Near(x, z, Pos(player[1], player[2], player[3]), 10)

----------------------------------------------------------------------------
(* Economy and environment events                                          *)

IsRig(e) == e.type = "MINING_RIG"
\* IsPlayerRig that takes every rig for the player's.
IsPlayerRigAnyOwner(e) == e.type = "MINING_RIG"
IsPlayerRig(e) == e.type = "MINING_RIG" /\ e.ownerId = NoOwner

\* The derived miningRigs count.
miningRigs(structs) == Len(SelectSeq(structs, IsPlayerRig))

\* triggerAd that schedules no payout while an ad break is running.
triggerAdSingle(s) ==
    IF s.activeEvent = "AD_BREAK" THEN s
    ELSE setTimeout([s EXCEPT !.activeEvent = "AD_BREAK"], "adEnd", 0, 4000, 4000)

triggerAd(s) ==
    setTimeout([s EXCEPT !.activeEvent = "AD_BREAK"], "adEnd", 0, 4000, 4000)

\* adPayout without the cap on the pot.
adPayoutUncapped(s) ==
    [s EXCEPT !.globalPot = MAdd(@, Dollars((AD_REVENUE * BRAND_SPLIT) \div 100)),
              !.ownerBalance = MAdd(@, Dollars((AD_REVENUE * (100 - BRAND_SPLIT)) \div 100)),
              !.activeEvent = "NONE"]

\* The callback triggerAd schedules.
adPayout(s) ==
    LET totalPayment == AD_REVENUE
        potShare == Dollars((totalPayment * BRAND_SPLIT) \div 100)
        ownerShare == Dollars((totalPayment * (100 - BRAND_SPLIT)) \div 100)
    IN  [s EXCEPT !.globalPot = MMin(MAdd(@, potShare), Dollars(MAX_POT)),
                  !.ownerBalance = MAdd(@, ownerShare),
                  !.activeEvent = "NONE"]

\* BASE_MINING_RATE * marketModifier * availableFactor, in nano-dollars;
\* availableFactor in tenths.
basePerRig(modifier, availableFactor) ==
    (BASE_MINING_RATE * modifier * availableFactor) \div 100

\* miningTick that is skipped during a storm only.
miningTickInAd(s) ==
    LET totalRigs == Len(SelectSeq(s.structures, IsRig))
        availableFactor == IF MLeq(s.globalPot, MZero) THEN 1 ELSE 10
        perRig == basePerRig(s.marketModifier, availableFactor)
        playerRigs == Len(SelectSeq(s.structures, IsPlayerRig))
    IN  IF s.activeEvent = "ACID_RAIN" THEN s
        ELSE [s EXCEPT !.globalPot = MMax(MZero, MSub(@, Nanos(totalRigs * perRig))),
                       !.money = MAdd(@, Nanos(playerRigs * perRig))]

\* One firing of the mining interval (which exists while totalRigs > 0).
miningTick(s) ==
    LET totalRigs == Len(SelectSeq(s.structures, IsRig))
        availableFactor == IF MLeq(s.globalPot, MZero) THEN 1 ELSE 10
        perRig == basePerRig(s.marketModifier, availableFactor)
        totalDraw == Nanos(totalRigs * perRig)
        playerRigs == Len(SelectSeq(s.structures, IsPlayerRig))
        playerIncome == Nanos(playerRigs * perRig)
        drawn == IF MLess(MZero, s.globalPot)
                 THEN [s EXCEPT !.globalPot = MMax(MZero, MSub(@, totalDraw))]
                 ELSE s
    IN  IF s.activeEvent = "ACID_RAIN" \/ s.activeEvent = "AD_BREAK" THEN s
        ELSE IF MLess(MZero, playerIncome)
        THEN [drawn EXCEPT !.money = MAdd(@, playerIncome)]
        ELSE drawn

\* The displayed rate, in nano-dollars per second.
currentMiningRate(s) ==
    IF s.activeEvent = "ACID_RAIN" \/ s.activeEvent = "AD_BREAK" THEN 0
    ELSE miningRigs(s.structures)
           * basePerRig(s.marketModifier,
                        IF MLess(MZero, s.globalPot) THEN 10 ELSE 1)

\* cashOut without the test for an empty wallet.
cashOutEmpty(s) ==
    LET fee == MPercent(s.money, OWNER_FEE)
        paid == [s EXCEPT !.ownerBalance = MAdd(@, fee)]
    IN  [triggerAd(paid) EXCEPT !.money = MZero]

cashOut(s) ==
    IF MLeq(s.money, MZero) THEN s
    ELSE LET fee == MPercent(s.money, OWNER_FEE)
             paid == [s EXCEPT !.ownerBalance = MAdd(@, fee)]
         IN  [triggerAd(paid) EXCEPT !.money = MZero]

\* handleDeath that also empties the wallet.
handleDeathPenalty(s) == [triggerAd(s) EXCEPT !.money = MZero]

handleDeath(s) == triggerAd(s)

\* eventCycle without the test for a running event.
eventCycleUnguarded(s, storm) ==
    IF storm
    THEN setTimeout([s EXCEPT !.activeEvent = "ACID_RAIN"],
                    "stormEnd", 0, 20000, 20000)
    ELSE s

\* One firing of the 30 s event interval; storm is Math.random() > 0.85.
eventCycle(s, storm) ==
    IF s.activeEvent # "NONE" THEN s
    ELSE IF storm
    THEN setTimeout([s EXCEPT !.activeEvent = "ACID_RAIN"],
                    "stormEnd", 0, 20000, 20000)
    ELSE s

\* stormEnd that also tops the pot up by a dollar.
stormEndRefill(s) ==
    [s EXCEPT !.activeEvent = "NONE",
              !.globalPot = MMin(MAdd(@, Dollars(1)), Dollars(MAX_POT))]

\* stormEnd that leaves the event as it is.
stormEndStuck(s) == s

stormEnd(s) == [s EXCEPT !.activeEvent = "NONE"]

\* updateMarket up to its await: the request is in flight, and carries the
\* activeEvent of the closure that issued it.  The response may arrive at
\* any later time.
\* Longer than every timer delay: the external call has no deadline.
MarketLatency == 1000 * 1000
updateMarket(s) ==
    setTimeout(s, "marketNews", s.activeEvent, 0, MarketLatency)

\* updateMarket after its await, with the modifier the generator returned.
marketNews(s, modifier) == [s EXCEPT !.marketModifier = modifier]

\* Whether updateMarket, after its await, logs the headline: the test reads
\* the activeEvent of the closure that issued the request.
marketLogged(closureEvent) == closureEvent = "NONE"

----------------------------------------------------------------------------
(* Agents                                                                  *)

StarterKit ==
    [EmptyInv EXCEPT !["CIRCUIT_BOARD"] = 3, !["FRAME"] = 1,
                     !["PLASTIC"] = 2, !["COAL"] = 5]

\* One bot of generateAIPlayers.  spawn = <<x, z>> is the position the
\* attempt loop ends with: the first draw that is dry and 2.0 clear of every
\* node or, when twenty draws all fail, the last draw whatever it is; so
\* every point of the spawn square is a possible outcome.
generateAIPlayer(id, spawn, heading) ==
    [id |-> id,
     position |-> Pos(spawn[1], getTerrainHeight(spawn[1], spawn[2]), spawn[2]),
     rotation |-> heading, action |-> "IDLE", targetNodeId |-> NoTarget,
     inventory |-> StarterKit, health |-> 100]

\* The order Object.entries visits an agent's inventory is the insertion
\* order of its keys; it only decides the order of the loot in the array.
ItemOrder ==
    << "CIRCUIT_BOARD", "FRAME", "PLASTIC", "COAL", "STONE", "METAL_ORE",
       "COPPER_ORE", "WOOD", "RESIN", "SCRAP", "SILICON", "STEEL",
       "COPPER_WIRE", "MINING_RIG", "FOUNDATION", "WALL", "ROOF" >>

RECURSIVE DropAll(_, _, _, _)
DropAll(s, bot, offsets, k) ==
    IF k > Len(ItemOrder) THEN s
    ELSE LET count == bot.inventory[ItemOrder[k]]
         IN  Let(IF count > 0
                 THEN spawnLoot(s, bot.position, ItemOrder[k], count, offsets)
                 ELSE s,
                 LAMBDA dropped : DropAll(dropped, bot, offsets, k + 1))

\* hitPlayer that schedules the respawn also when no agent has the id.
hitPlayerUnguarded(s, id, offsets) ==
    IF ~HasId(s.aiPlayers, id)
    THEN setTimeout(s, "botRespawn", 0, 30000, 30000)
    ELSE LET bot == ById(s.aiPlayers, id)
             newHealth == bot.health - 25
             Hurt(b) == IF b.id = id THEN [b EXCEPT !.health = newHealth] ELSE b
         IN  IF newHealth <= 0
             THEN [setTimeout(DropAll(s, bot, offsets, 1),
                              "botRespawn", 0, 30000, 30000)
                      EXCEPT !.aiPlayers = WithoutId(@, id)]
             ELSE [s EXCEPT !.aiPlayers = Map(@, Hurt)]

hitPlayer(s, id, offsets) ==
    IF ~HasId(s.aiPlayers, id) THEN s
    ELSE LET bot == ById(s.aiPlayers, id)
             newHealth == bot.health - 25
             Hurt(b) == IF b.id = id THEN [b EXCEPT !.health = newHealth] ELSE b
         IN  IF newHealth <= 0
             THEN [setTimeout(DropAll(s, bot, offsets, 1),
                              "botRespawn", 0, 30000, 30000)
                      EXCEPT !.aiPlayers = WithoutId(@, id)]
             ELSE [s EXCEPT !.aiPlayers = Map(@, Hurt)]

\* botRespawn that brings back two agents.
botRespawnTwins(s, spawn, heading) ==
    [s EXCEPT !.aiPlayers = @ \o << generateAIPlayer(s.nextId, spawn, heading),
                                    generateAIPlayer(s.nextId + 1, spawn, heading) >>,
              !.nextId = @ + 2]

\* The respawn callback hitPlayer schedules.
botRespawn(s, spawn, heading) ==
    [s EXCEPT !.aiPlayers = Append(@, generateAIPlayer(s.nextId, spawn, heading)),
              !.nextId = @ + 1]

\* The seven inlined crafting steps of the agent loop, in source order.
AutoCraft ==
    << [needs |-> << In("STONE", 2), In("COAL", 1) >>,
        makes |-> In("SILICON", 1)],
       [needs |-> << In("METAL_ORE", 2), In("COAL", 1) >>,
        makes |-> In("STEEL", 1)],
       [needs |-> << In("COPPER_ORE", 1), In("COAL", 1) >>,
        makes |-> In("COPPER_WIRE", 2)],
       [needs |-> << In("RESIN", 2), In("COAL", 1) >>,
        makes |-> In("PLASTIC", 1)],
       [needs |-> << In("SILICON", 2), In("COPPER_WIRE", 3), In("PLASTIC", 1) >>,
        makes |-> In("CIRCUIT_BOARD", 1)],
       [needs |-> << In("STEEL", 4), In("SCRAP", 2) >>,
        makes |-> In("FRAME", 1)],
       [needs |-> << In("CIRCUIT_BOARD", 3), In("FRAME", 1), In("PLASTIC", 2) >>,
        makes |-> In("MINING_RIG", 1)] >>

\* autoCraftStep that makes one unit whatever the step makes.
autoCraftStepSingle(botInv, step) ==
    IF \A k \in 1..Len(step.needs) : botInv[step.needs[k].item] >= step.needs[k].count
    THEN [SubtractInputs(botInv, step.needs, 1)
             EXCEPT ![step.makes.item] = @ + 1]
    ELSE botInv

autoCraftStep(botInv, step) ==
    IF \A k \in 1..Len(step.needs) : botInv[step.needs[k].item] >= step.needs[k].count
    THEN [SubtractInputs(botInv, step.needs, 1)
             EXCEPT ![step.makes.item] = @ + step.makes.count]
    ELSE botInv

RECURSIVE autoCraft(_, _)
autoCraft(botInv, k) ==
    IF k > Len(AutoCraft) THEN botInv
    ELSE Let(autoCraftStep(botInv, AutoCraft[k]),
             LAMBDA inv : autoCraft(inv, k + 1))

\* neededType that asks for resin before coal.
neededTypeResinFirst(botInv) ==
    IF botInv["RESIN"] < 5 THEN "TREE"
    ELSE IF botInv["COAL"] < 5 THEN "COAL"
    ELSE IF botInv["STONE"] < 5 THEN "STONE"
    ELSE IF botInv["METAL_ORE"] < 5 THEN "METAL"
    ELSE IF botInv["COPPER_ORE"] < 2 THEN "COPPER"
    ELSE IF botInv["SCRAP"] < 2 THEN "JUNK"
    ELSE NoType

neededType(botInv) ==
    IF botInv["COAL"] < 5 THEN "COAL"
    ELSE IF botInv["RESIN"] < 5 THEN "TREE"
    ELSE IF botInv["STONE"] < 5 THEN "STONE"
    ELSE IF botInv["METAL_ORE"] < 5 THEN "METAL"
    ELSE IF botInv["COPPER_ORE"] < 2 THEN "COPPER"
    ELSE IF botInv["SCRAP"] < 2 THEN "JUNK"
    ELSE NoType

Abs(n) == IF n < 0 THEN -n ELSE n

\* Math.atan2(dx, dz) to the nearest eighth of a turn (0 is +z, 2 is +x).
atan2(dx, dz) ==
    IF 12 * Abs(dx) <= 5 * Abs(dz) THEN (IF dz >= 0 THEN 0 ELSE 4)
    ELSE IF 12 * Abs(dz) <= 5 * Abs(dx) THEN (IF dx > 0 THEN 2 ELSE -2)
    ELSE IF dx > 0 THEN (IF dz > 0 THEN 1 ELSE 3)
    ELSE (IF dz > 0 THEN -1 ELSE -3)

\* <<Math.sin(rotation) * speed, Math.cos(rotation) * speed>> for speed 0.4,
\* rounded to tenths.
step(rotation) ==
    LET h == rotation % 8
    IN  CASE h = 0 -> << 0, 4 >>
          [] h = 1 -> << 3, 3 >>
          [] h = 2 -> << 4, 0 >>
          [] h = 3 -> << 3, -3 >>
          [] h = 4 -> << 0, -4 >>
          [] h = 5 -> << -3, -3 >>
          [] h = 6 -> << -4, 0 >>
          [] h = 7 -> << -3, 3 >>


\* One agent's pass through the body of the agent loop, in the five stages
\* of the source.  c holds the outcomes of its Math.random() calls: c.place
\* (< 0.2, rig placement), c.structRot, c.wander (the random heading) and
\* c.hit (< 0.2, mining).  res, structs and ais are what the refs hold when
\* the interval fires.

\* 1. crafting, 2. building: the inventory and the action they leave, and
\* whether a rig was placed.
botBuild(bot, c) ==
    Let(autoCraft(bot.inventory, 1), LAMBDA inv1 :
        LET hasRig == inv1["MINING_RIG"] > 0
            placed == hasRig /\ c.place
        IN  [inventory |-> IF placed THEN [inv1 EXCEPT !["MINING_RIG"] = @ - 1]
                           ELSE inv1,
             action |-> IF hasRig THEN "MOVING" ELSE bot.action,
             placed |-> placed])

\* 3. targeting; b is the result of botBuild.
botTarget(bot, c, res, b) ==
    LET x == bot.position[1]
        z == bot.position[3]
        targeting == b.action = "IDLE"
                       \/ (b.action = "MINING" /\ bot.targetNodeId = NoTarget)
        need == neededType(b.inventory)
        Wanted(r) == /\ ~(r.health <= 0 \/ r.type = "LOOSE_ITEM")
                     /\ ~(need # NoType /\ r.type # need)
                     /\ Near(x, z, r.position, 500)
        Harvestable(r) == r.health > 0 /\ r.type # "LOOSE_ITEM"
                            /\ Near(x, z, r.position, 300)
    IN  IF ~targeting
        THEN [targetNodeId |-> bot.targetNodeId, action |-> b.action,
              rotation |-> bot.rotation]
        ELSE Let(Find(res, Wanted), LAMBDA nearest :
             Let(IF nearest # << >> THEN nearest ELSE Find(res, Harvestable),
                 LAMBDA target :
                 [targetNodeId |-> IF target # << >> THEN target[1].id
                                   ELSE bot.targetNodeId,
                  action |-> "MOVING",
                  rotation |-> IF target = << >> THEN c.wander
                               ELSE bot.rotation]))

\* botSlide that pushes through when all three moves are blocked.
botSlideThrough(bot, res, structs, ais, player, d) ==
    LET x == bot.position[1]
        z == bot.position[3]
        nextX == x + step(d.rotation)[1]
        nextZ == z + step(d.rotation)[2]
        Blocked(px, pz) ==
            checkCollision(res, structs, ais, player, px, pz, bot.id)
    IN  Let(d.move /\ ~Blocked(nextX, nextZ), LAMBDA full :
        Let(d.move /\ ~full /\ ~Blocked(nextX, z), LAMBDA onlyX :
        Let(d.move /\ ~full /\ ~onlyX /\ ~Blocked(x, nextZ), LAMBDA onlyZ :
            [x |-> IF d.move /\ ~onlyZ THEN nextX ELSE x,
             z |-> IF d.move /\ ~onlyX THEN nextZ ELSE z,
             stuck |-> FALSE])))

\* The step of stage 4: the full move, else the X-only move, else the
\* Z-only move, else none (stuck); d is the decision of botMove.
botSlide(bot, res, structs, ais, player, d) ==
    LET x == bot.position[1]
        z == bot.position[3]
        nextX == x + step(d.rotation)[1]
        nextZ == z + step(d.rotation)[2]
        Blocked(px, pz) ==
            checkCollision(res, structs, ais, player, px, pz, bot.id)
    IN  Let(d.move /\ ~Blocked(nextX, nextZ), LAMBDA full :
        Let(d.move /\ ~full /\ ~Blocked(nextX, z), LAMBDA onlyX :
        Let(d.move /\ ~full /\ ~onlyX /\ ~Blocked(x, nextZ), LAMBDA onlyZ :
            [x |-> IF full \/ onlyX THEN nextX ELSE x,
             z |-> IF full \/ onlyZ THEN nextZ ELSE z,
             stuck |-> d.move /\ ~full /\ ~onlyX /\ ~onlyZ])))

\* botMove that lets an agent take its last step as it arrives.
botMoveArriving(bot, res, structs, ais, player, t) ==
    LET x == bot.position[1]
        y == bot.position[2]
        z == bot.position[3]
        IsTarget(r) == r.id = t.targetNodeId
    IN  Let(Find(res, IsTarget), LAMBDA tnode :
        LET moving == t.action = "MOVING"
            gone == moving /\ t.targetNodeId # NoTarget
                      /\ (tnode = << >> \/ tnode[1].health <= 0)
            steer == moving /\ t.targetNodeId # NoTarget /\ ~gone
            close == steer /\ Near(x, z, tnode[1].position, 20)
            rot3 == IF steer
                    THEN atan2(tnode[1].position[1] - x, tnode[1].position[3] - z)
                    ELSE t.rotation
        IN  Let([gone |-> gone, close |-> close,
                 move |-> moving /\ ~gone, rotation |-> rot3],
                LAMBDA d :
            Let(botSlide(bot, res, structs, ais, player, d), LAMBDA p :
                [position |-> Pos(p.x,
                                  IF d.move THEN getTerrainHeight(p.x, p.z) ELSE y,
                                  p.z),
                 rotation |-> IF p.stuck THEN d.rotation + 2 ELSE d.rotation,
                 targetNodeId |-> IF d.gone THEN NoTarget ELSE t.targetNodeId,
                 action |-> IF d.gone \/ p.stuck THEN "IDLE"
                            ELSE IF d.close THEN "MINING"
                            ELSE t.action])))

\* 4. movement; t is the result of botTarget.
botMove(bot, res, structs, ais, player, t) ==
    LET x == bot.position[1]
        y == bot.position[2]
        z == bot.position[3]
        IsTarget(r) == r.id = t.targetNodeId
    IN  Let(Find(res, IsTarget), LAMBDA tnode :
        LET moving == t.action = "MOVING"
            gone == moving /\ t.targetNodeId # NoTarget
                      /\ (tnode = << >> \/ tnode[1].health <= 0)
            steer == moving /\ t.targetNodeId # NoTarget /\ ~gone
            close == steer /\ Near(x, z, tnode[1].position, 20)
            rot3 == IF steer /\ ~close
                    THEN atan2(tnode[1].position[1] - x, tnode[1].position[3] - z)
                    ELSE t.rotation
        IN  Let([gone |-> gone, close |-> close,
                 move |-> moving /\ ~gone /\ ~close, rotation |-> rot3],
                LAMBDA d :
            Let(botSlide(bot, res, structs, ais, player, d), LAMBDA p :
                [position |-> Pos(p.x,
                                  IF d.move THEN getTerrainHeight(p.x, p.z) ELSE y,
                                  p.z),
                 rotation |-> IF p.stuck THEN d.rotation + 2 ELSE d.rotation,
                 targetNodeId |-> IF d.gone THEN NoTarget ELSE t.targetNodeId,
                 action |-> IF d.gone \/ p.stuck THEN "IDLE"
                            ELSE IF d.close THEN "MINING"
                            ELSE t.action])))

\* 5. mining; inv is the inventory botBuild left, m the result of botMove.
botMine(c, res, inv, m) ==
    LET IsTarget(r) == r.id = m.targetNodeId
    IN  Let(Find(res, IsTarget), LAMBDA mnode :
        LET mining == m.action = "MINING"
            valid == mining /\ m.targetNodeId # NoTarget
                       /\ mnode # << >> /\ mnode[1].health > 0
            hit == valid /\ c.hit
            credited == [inv EXCEPT ![mnode[1].drop] = @ + 1]
        IN  [inventory |-> IF ~hit THEN inv
                           ELSE IF mnode[1].type = "TREE"
                           THEN [credited EXCEPT !["RESIN"] = @ + 1]
                           ELSE credited,
             action |-> IF mining /\ ~valid THEN "IDLE" ELSE m.action,
             targetNodeId |-> IF mining /\ m.targetNodeId # NoTarget /\ ~valid
                              THEN NoTarget ELSE m.targetNodeId,
             hit |-> IF hit THEN m.targetNodeId ELSE NoTarget])

\* botTick that leaves the rig it places without an owner.
botTickUnowned(bot, c, res, structs, ais, player) ==
    Let(botBuild(bot, c), LAMBDA b :
    Let(botTarget(bot, c, res, b), LAMBDA t :
    Let(botMove(bot, res, structs, ais, player, t), LAMBDA m :
    Let(botMine(c, res, b.inventory, m), LAMBDA n :
        [bot |-> [bot EXCEPT !.position = m.position, !.rotation = m.rotation,
                             !.action = n.action,
                             !.targetNodeId = n.targetNodeId,
                             !.inventory = n.inventory],
         placed |-> b.placed,
         rig |-> [position |-> bot.position, rotation |-> c.structRot,
                  ownerId |-> NoOwner],
         hit |-> n.hit]))))

\* The agent after the tick, whether it placed a rig (and where), and the
\* node it hit, if any.
botTick(bot, c, res, structs, ais, player) ==
    Let(botBuild(bot, c), LAMBDA b :
    Let(botTarget(bot, c, res, b), LAMBDA t :
    Let(botMove(bot, res, structs, ais, player, t), LAMBDA m :
    Let(botMine(c, res, b.inventory, m), LAMBDA n :
        [bot |-> [bot EXCEPT !.position = m.position, !.rotation = m.rotation,
                             !.action = n.action,
                             !.targetNodeId = n.targetNodeId,
                             !.inventory = n.inventory],
         placed |-> b.placed,
         rig |-> [position |-> bot.position, rotation |-> c.structRot,
                  ownerId |-> bot.id],
         hit |-> n.hit]))))

\* The results of the agents from the k-th on, all computed from what the
\* refs held when the interval fired.
RECURSIVE botResults(_, _, _)
botResults(s, choices, k) ==
    IF k > Len(s.aiPlayers) THEN << >>
    ELSE << botTick(s.aiPlayers[k], choices[k], s.resources, s.structures,
                    s.aiPlayers, s.playerPosRef) >>
         \o botResults(s, choices, k + 1)

\* The queued setStructures and hitNode calls of one firing, in agent order.
RECURSIVE ApplyBotEffects(_, _, _)
ApplyBotEffects(s, results, k) ==
    IF k > Len(results) THEN s
    ELSE LET r == results[k]
         IN  Let(IF r.placed
                 THEN [s EXCEPT !.structures =
                           Append(@, Structure(s.nextId, "MINING_RIG",
                                               r.rig.position, r.rig.rotation,
                                               r.rig.ownerId)),
                                !.nextId = @ + 1]
                 ELSE s, LAMBDA s1 :
             Let(IF r.hit # NoTarget THEN hitNode(s1, r.hit, TRUE) ELSE s1,
                 LAMBDA s2 : ApplyBotEffects(s2, results, k + 1)))

\* The store after the setAiPlayers updater and the calls it queued.
applyResults(s, results) ==
    Let([s EXCEPT !.aiPlayers = [i \in 1..Len(results) |-> results[i].bot]],
        LAMBDA moved : ApplyBotEffects(moved, results, 1))

\* One firing of the 100 ms agent interval; choices[i] are the random
\* outcomes of agent i.
aiTick(s, choices) ==
    Let(botResults(s, choices, 1), LAMBDA results : applyResults(s, results))

----------------------------------------------------------------------------
(* Bounds of the model and the sets its inputs are drawn from              *)

MaxOps == 4            \* calls of the player's entry points
MaxAiTicks == 3        \* firings of the agent interval
MaxMiningTicks == 2    \* firings of the mining interval
MaxAds == 1            \* ad breaks triggered by cashOut and handleDeath
MaxStorms == 1         \* storms started
MaxMarket == 1         \* market requests issued by the interval
MaxRespawns == 1       \* node respawns
MaxIds == 2            \* ids handed out after world generation
MaxRotation == 1       \* quarter turns of the build ghost
MaxFrames == 1         \* frames in which the player moves

\* marketModifier values the news generator returns: inside the jitter of
\* the local fallback and inside the range asked of the provider.
Modifiers == {8, 10, 14}

\* Outcomes <<rx, rz>> of (Math.random() - 0.5) * 140: one dry point and
\* two points under water.
RespawnDraws == { << 300, -400 >>, << -650, 650 >>, << -700, -690 >> }

\* Outcomes of the spawn draws (Math.random() - 0.5) * 80, one per agent,
\* and of the heading.  One agent stands for the population.
SpawnDraws == { << << 82, 50 >> >> }
SpawnHeadings == { 6 }

\* Outcomes of world generation: the rolls of generateResources (type, x, z
\* of each iteration; the third is a tree drawn under water, which is
\* skipped).
GenRolls ==
    { << [type |-> "TREE", x |-> 60, z |-> 50],
         [type |-> "COAL", x |-> -60, z |-> 200],
         [type |-> "TREE", x |-> -700, z |-> -690] >> }

\* Random outcomes of one agent in one tick.
BotChoices ==
    [place : BOOLEAN, structRot : {0}, wander : {0, 6}, hit : BOOLEAN]

\* randomOffset of dropItem, (Math.random() - 0.5) * 0.2.
DropOffsets == { -1, 0 }

\* The ten offset pairs one spawnLoot call draws.
LootPatterns ==
    { [i \in 1..10 |-> << 0, 0 >>],
      [i \in 1..10 |-> << ((i % 3) - 1) * 7, (((i + 1) % 3) - 1) * 7 >>] }

\* Ghost positions confirmBuild is given: grid points with their height.
BuildPositions ==
    { Pos(p[1], getTerrainHeight(p[1], p[2]), p[2]) :
        p \in { << 90, 60 >>, << 0, 90 >> } }

\* Per-frame displacement of the player, and the view direction.
PlayerMoves == { << 1, 0 >>, << 0, -1 >> }
PlayerDirs == { << 1, 0 >>, << 0, 1 >> }

Counters ==
    {"ops", "ai", "mining", "ads", "storm", "market", "respawn", "ids",
     "rotate", "frame", "none"}

\* The budget that allows r[c] steps of each kind c named by the record r,
\* and none of the other bounded kinds.
Budget(r) ==
    [c \in Counters |->
        IF c = "none" THEN 1 ELSE IF c \in DOMAIN r THEN r[c] ELSE 0]

\* The step to store s2, made by operation op with argument arg and
\* result ret, charged to counter c and to the ids it hands out.
Step(s2, op, arg, ret, c) ==
    /\ budget[c] > 0
    /\ \E after \in { s2 } :
          LET ids == after.nextId - nextId
              left == [budget EXCEPT !["ids"] = @ - ids]
          IN  /\ left["ids"] >= 0
              /\ Commit(after)
              /\ mounted' = mounted
              /\ last' = [op |-> op, arg |-> arg, ret |-> ret]
              /\ budget' = IF c = "none" THEN left
                            ELSE [left EXCEPT ![c] = @ - 1]

----------------------------------------------------------------------------
(* Actions: the entry points the rendering/input layer invokes             *)

\* The ids below nextId that name no entity: those of entities that were
\* removed, and the index of a world-generation draw that was skipped.
Removed ==
    { id \in 1..(nextId - 1) :
        ~(HasId(resources, id) \/ HasId(structures, id) \/ HasId(aiPlayers, id)) }

\* The ids a caller can name: those of the entities in seq, those of
\* entities already removed, and one id never handed out.
IdsOf(seq) == { seq[i].id : i \in 1..Len(seq) } \cup Removed \cup { nextId }

\* craft(RECIPES[k]) for a k in ks.
Craft(ks) ==
    \E k \in ks :
        Step(craft(Store, RECIPES[k]), "craft", k,
             craftReturn(Store, RECIPES[k]), "ops")

\* dropItem(item) for an item in items.
DropItem(items) ==
    \E item \in items, off \in DropOffsets :
        Step(dropItem(Store, item, off), "dropItem", item, TRUE, "ops")

\* The inventory panel offers "Place" for the placeable kinds held.
StartBuildMode ==
    \E type \in Placeable :
        /\ inventory[type] > 0
        /\ Step(startBuildMode(Store, type), "startBuildMode", type, TRUE, "ops")

\* Escape and R are handled while the build ghost is shown.
CancelBuildMode ==
    /\ buildMode.active
    /\ Step(cancelBuildMode(Store), "cancelBuildMode", 0, TRUE, "ops")

RotateBuild ==
    /\ buildMode.active
    /\ Step(rotateBuild(Store), "rotateBuild", 0, TRUE, "rotate")

ToggleMenu ==
    Step(toggleMenu(Store), "toggleMenu", 0, TRUE, "ops")

\* A left click while buildModeRef says the ghost is shown.  The ref is
\* synchronised with buildMode by an effect, after the render that follows
\* a change, so the click can find buildMode already inactive.
ConfirmBuild ==
    \E position \in BuildPositions :
        Step(confirmBuild(Store, position), "confirmBuild", position, TRUE, "ops")

PickupStructure ==
    \E id \in IdsOf(structures) :
        Step(pickupStructure(Store, id), "pickupStructure", id, TRUE, "ops")

ClaimStructure ==
    \E id \in IdsOf(structures) :
        Step(claimStructure(Store, id), "claimStructure", id, TRUE, "ops")

HitStructure ==
    \E id \in IdsOf(structures) :
        Step(hitStructure(Store, id), "hitStructure", id, TRUE, "ops")

HitNode ==
    \E id \in IdsOf(resources) :
        Step(hitNode(Store, id, FALSE), "hitNode", id, TRUE, "ops")

HitPlayer ==
    \E id \in IdsOf(aiPlayers), offsets \in LootPatterns :
        Step(hitPlayer(Store, id, offsets), "hitPlayer", id, TRUE, "ops")

\* arg records the wallet the call found.
CashOut ==
    Step(cashOut(Store), "cashOut", money, TRUE,
         IF MLess(MZero, money) THEN "ads" ELSE "none")

HandleDeath ==
    Step(handleDeath(Store), "handleDeath", 0, TRUE, "ads")

\* One frame of the player controller: no movement during an ad break;
\* otherwise the full move, else the X-only move, else the Z-only move.
playerFrame(s, move, dir) ==
    LET x == s.playerPosRef[1]
        z == s.playerPosRef[3]
        nextX == x + move[1]
        nextZ == z + move[2]
        Blocked(px, pz) ==
            checkCollision(s.resources, s.structures, s.aiPlayers,
                           s.playerPosRef, px, pz, NoIgnore)
    IN  IF s.activeEvent = "AD_BREAK" THEN s
        ELSE Let(~Blocked(nextX, nextZ), LAMBDA full :
             Let(~full /\ ~Blocked(nextX, z), LAMBDA onlyX :
             Let(~full /\ ~onlyX /\ ~Blocked(x, nextZ), LAMBDA onlyZ :
             Let(<< IF full \/ onlyX THEN nextX ELSE x,
                    IF full \/ onlyZ THEN nextZ ELSE z >>, LAMBDA to :
                 [s EXCEPT !.playerPosRef =
                     << to[1], getTerrainHeight(to[1], to[2]) + 1700, to[2],
                        dir[1], dir[2] >>]))))

PlayerFrame ==
    \E move \in PlayerMoves, dir \in PlayerDirs :
        Step(playerFrame(Store, move, dir), "playerFrame", move, TRUE, "frame")

----------------------------------------------------------------------------
(* Actions: the periodic processes                                         *)

MiningTick ==
    /\ Len(SelectSeq(structures, IsRig)) > 0
    /\ Step(miningTick(Store), "miningTick", 0, TRUE, "mining")

\* arg records the draw: 1 for a storm, 0 for none.
EventCycle ==
    \E storm \in BOOLEAN :
        Step(eventCycle(Store, storm), "eventCycle", IF storm THEN 1 ELSE 0, TRUE,
             IF storm /\ activeEvent = "NONE" THEN "storm" ELSE "none")

UpdateMarket ==
    Step(updateMarket(Store), "updateMarket", 0, TRUE, "market")

\* ret records the node each agent hit (NoTarget for none).
AiTick ==
    \E choices \in [1..Len(aiPlayers) -> BotChoices] :
        \E results \in { botResults(Store, choices, 1) } :
            Step(applyResults(Store, results), "aiTick", 0,
                 [i \in 1..Len(results) |-> results[i].hit], "ai")

----------------------------------------------------------------------------
(* Actions: the one-shot callbacks                                         *)

Fired(i) == [Store EXCEPT !.timers = RemoveAt(@, i)]

Due(i, kind) == CanFire(i) /\ timers[i].kind = kind

LoginAd ==
    \E i \in 1..Len(timers) :
        /\ Due(i, "loginAd")
        /\ Step(triggerAd(Fired(i)), "triggerAd", 0, TRUE, "none")

AdEnd ==
    \E i \in 1..Len(timers) :
        /\ Due(i, "adEnd")
        /\ Step(adPayout(Fired(i)), "adPayout", 0, TRUE, "none")

StormEnd ==
    \E i \in 1..Len(timers) :
        /\ Due(i, "stormEnd")
        /\ Step(stormEnd(Fired(i)), "stormEnd", 0, TRUE, "none")

\* ret records whether the headline was logged.
MarketNews ==
    \E i \in 1..Len(timers), modifier \in Modifiers :
        /\ Due(i, "marketNews")
        /\ Step(marketNews(Fired(i), modifier), "marketNews", modifier,
                marketLogged(timers[i].arg), "none")

DestroyNode ==
    \E i \in 1..Len(timers) :
        /\ Due(i, "destroyNode")
        /\ Step(destroyNode(Fired(i), timers[i].arg), "destroyNode",
                timers[i].arg, TRUE, "none")

RespawnNode ==
    \E i \in 1..Len(timers), d1 \in RespawnDraws, d2 \in RespawnDraws :
        /\ Due(i, "respawn")
        /\ Step(respawnNode(Fired(i), timers[i].arg, d1, d2), "respawnNode",
                timers[i].arg, TRUE, "respawn")

BotRespawn ==
    \E i \in 1..Len(timers), spawn \in SpawnDraws, heading \in SpawnHeadings :
        /\ Due(i, "botRespawn")
        /\ Step(botRespawn(Fired(i), spawn[1], heading), "botRespawn", 0, TRUE, "none")

CloseBuild ==
    \E i \in 1..Len(timers) :
        /\ Due(i, "closeBuild")
        /\ Step(closeBuild(Fired(i)), "closeBuild", 0, TRUE, "none")

----------------------------------------------------------------------------
(* Initial states                                                          *)

NoOp == [op |-> "init", arg |-> 0, ret |-> TRUE]

\* The timers pending once the mount effects have run: the first market
\* request is in flight and the login ad is scheduled.
MountTimers ==
    << Timer("marketNews", "NONE", 0, MarketLatency),
       Timer("loginAd", 0, 1000, 1000) >>

\* The store as the useState initialisers leave it, with the given world.
InitStore(inv, pot, res, structs, ais, nid, tms) ==
    /\ inventory = inv
    /\ money = MZero
    /\ globalPot = pot
    /\ ownerBalance = MZero
    /\ marketModifier = 10
    /\ activeEvent = "NONE"
    /\ isMenuOpen = FALSE
    /\ buildMode = BuildOff
    /\ resources = res
    /\ structures = structs
    /\ aiPlayers = ais
    /\ playerPosRef = << 0, 5000, 50, 1, 0 >>
    /\ timers = tms
    /\ nextId = nid
    /\ mounted = TRUE
    /\ last = NoOp

\* The agents generateAIPlayers(count, ...) returns, ids from firstId.
generateAIPlayers(firstId, spawns, heading) ==
    [i \in 1..Len(spawns) |-> generateAIPlayer(firstId + i - 1, spawns[i], heading)]

\* The store once the mount effects have generated the nodes and the
\* agents, with the given inventory, pot, structures and pending timers.
World(inv, pot, structs, tms) ==
    \E rolls \in GenRolls, spawns \in SpawnDraws, heading \in SpawnHeadings :
        InitStore(inv, pot, generateResources(rolls, 1), structs,
                  generateAIPlayers(Len(rolls) + 1, spawns, heading),
                  Len(rolls) + Len(spawns) + 1 + Len(structs), tms)

----------------------------------------------------------------------------
(* Spec: the world.  The player's entry points, the agent loop and the     *)
(* node callbacks, from the state the mount effects leave; the login ad is *)
(* over.                                                                   *)

Init ==
    /\ World(EmptyInv, Dollars(3000), << >>, << >>)
    /\ budget = Budget([ops |-> MaxOps, ai |-> MaxAiTicks, respawn |-> MaxRespawns,
                        ids |-> MaxIds, rotate |-> MaxRotation])

Next ==
    \/ Craft({7, 9}) \/ DropItem({"COAL"}) \/ StartBuildMode \/ CancelBuildMode
    \/ RotateBuild \/ ConfirmBuild \/ CloseBuild \/ PickupStructure
    \/ ClaimStructure \/ HitStructure \/ HitNode \/ DestroyNode \/ RespawnNode
    \/ AiTick

Spec == Init /\ [][Next]_vars

----------------------------------------------------------------------------
(* SpecCraft: crafting.  The player holds one of a family of inventories   *)
(* built from the catalog and calls craft with any recipe.                 *)

MaxCrafts == 2         \* craft calls in a row

\* The count of item a recipe requires (0 when the item is no input).
Required(recipe, item) ==
    LET ks == { k \in 1..Len(recipe.inputs) : recipe.inputs[k].item = item }
    IN  IF ks = {} THEN 0 ELSE recipe.inputs[CHOOSE k \in ks : TRUE].count

\* The inputs of a recipe, each with spare units on top.
Stock(recipe, spare) ==
    [i \in ItemType |->
        IF Required(recipe, i) > 0 THEN Required(recipe, i) + spare ELSE 0]

\* Inventories gathered, refunded or crafted in the course of a run: nothing;
\* raw materials enough for a chain of crafts; for each recipe its inputs
\* exactly, its inputs with one to spare, and its inputs with one unit of
\* one input missing.
CraftInventories ==
    { EmptyInv,
      [i \in ItemType |->
          IF i \in {"STONE", "METAL_ORE", "COPPER_ORE", "WOOD", "RESIN", "COAL",
                    "SCRAP"} THEN 6 ELSE 0] }
    \cup { Stock(RECIPES[k], spare) : k \in 1..Len(RECIPES), spare \in {0, 1} }
    \cup UNION { { [Stock(RECIPES[k], 0) EXCEPT ![RECIPES[k].inputs[j].item] = @ - 1] :
                     j \in 1..Len(RECIPES[k].inputs) } : k \in 1..Len(RECIPES) }

InitCraft ==
    /\ \E inv \in CraftInventories : World(inv, Dollars(3000), << >>, << >>)
    /\ budget = Budget([ops |-> MaxCrafts])

NextCraft == Craft(1..Len(RECIPES))

SpecCraft == InitCraft /\ [][NextCraft]_vars

----------------------------------------------------------------------------
(* SpecEcon: the economy.  The mining interval, the event scheduler, the   *)
(* market adapter, cashOut, handleDeath and the ad callbacks; the rigs     *)
(* stand where the agent and the player placed them.                       *)

RigAt(id, x, z, ownerId) ==
    Structure(id, "MINING_RIG", Pos(x, getTerrainHeight(x, z), z), 0, ownerId)

\* Rigs standing in the world: the agent's (placed where it spawned), and
\* that rig claimed by the player with a second rig of the agent beside it.
RigLayouts ==
    { << RigAt(5, 82, 50, 4) >>,
      << RigAt(5, 82, 50, NoOwner), RigAt(6, 90, 60, 4) >> }

\* A pot the draws have nearly emptied: 2500 $ less a whole number of the
\* model's smallest draw.
LowPot == Nanos(10600 + 16600 * 5)

\* Pots the economy passes through: after the login ad, at the cap (after
\* fifteen ads), and nearly empty.
EconPots == { Dollars(3000), Dollars(MAX_POT), LowPot }

InitEcon ==
    /\ \/ World(EmptyInv, Dollars(2500), << >>, MountTimers)
       \/ \E pot \in EconPots, rigs \in RigLayouts :
             World(EmptyInv, pot, rigs, << >>)
    /\ budget = Budget([mining |-> MaxMiningTicks, ads |-> MaxAds,
                        storm |-> MaxStorms, market |-> MaxMarket])

NextEcon ==
    \/ MiningTick \/ CashOut \/ HandleDeath \/ LoginAd \/ AdEnd
    \/ EventCycle \/ StormEnd \/ UpdateMarket \/ MarketNews

SpecEcon == InitEcon /\ [][NextEcon]_vars

----------------------------------------------------------------------------
(* SpecEvents: the environment state machine from the mount on, once the   *)
(* first market response has arrived, with the one-shot timers of the      *)
(* login ad, the ad breaks and the storms fair: a pending timer that may   *)
(* fire does fire.                                                         *)

MaxEventAds == 2       \* ad breaks triggered by handleDeath
MaxEventStorms == 2    \* storms started

InitEvents ==
    /\ World(EmptyInv, Dollars(2500), << >>, << Timer("loginAd", 0, 1000, 1000) >>)
    /\ budget = Budget([ads |-> MaxEventAds, storm |-> MaxEventStorms])

NextEvents ==
    HandleDeath \/ LoginAd \/ AdEnd \/ EventCycle \/ StormEnd

\* The kinds of the pending timers, oldest first; every firing changes it.
Pending == [i \in 1..Len(timers) |-> timers[i].kind]

SpecEvents ==
    /\ InitEvents /\ [][NextEvents]_vars
    /\ WF_Pending(LoginAd) /\ WF_Pending(AdEnd) /\ WF_Pending(StormEnd)

----------------------------------------------------------------------------
(* SpecPause: the actors during ad breaks.  The agent loop and the player  *)
(* controller run from the mount on while the login ad and the ads of      *)
(* handleDeath come and go.                                                *)

InitPause ==
    /\ World(EmptyInv, Dollars(2500), << >>, << Timer("loginAd", 0, 1000, 1000) >>)
    /\ budget = Budget([ai |-> MaxAiTicks, frame |-> MaxFrames, ads |-> MaxAds,
                        ids |-> MaxIds])

NextPause ==
    LoginAd \/ AdEnd \/ HandleDeath \/ AiTick \/ PlayerFrame

SpecPause == InitPause /\ [][NextPause]_vars

----------------------------------------------------------------------------
(* SpecCollision: the collision oracle, queried at points around every     *)
(* kind of obstacle.                                                       *)

\* The world before the mount effects have run: no node, no agent.
EmptyWorld ==
    InitStore(EmptyInv, Dollars(2500), << >>, << >>, << >>, 1, << >>)

\* The generated world later in a run: the coal node is depleted and hidden,
\* the player has dropped an item, one structure of each kind stands on the
\* build grid and the agent's rig stands where the agent does.
BuiltWorld ==
    \E rolls \in GenRolls, spawns \in SpawnDraws, heading \in SpawnHeadings :
        LET Hide(n) == IF n.type = "COAL"
                       THEN [n EXCEPT !.health = 0, !.position = HiddenPos]
                       ELSE n
            At(id, type, x, z) ==
                Structure(id, type, Pos(x, getTerrainHeight(x, z), z), 0, NoOwner)
        IN  InitStore(EmptyInv, Dollars(3000),
                      Map(generateResources(rolls, 1), Hide)
                        \o << LooseItem(5, 15, getTerrainHeight(15, 50), 50, "COAL") >>,
                      << RigAt(6, 82, 50, 4), At(7, "FOUNDATION", 0, 90),
                         At(8, "WALL", 90, -60), At(9, "ROOF", -90, -60),
                         At(10, "MINING_RIG", -300, 300) >>,
                      generateAIPlayers(Len(rolls) + 1, spawns, heading),
                      11, << Timer("respawn", 2, 15000, 30000) >>)

\* Points <<x, z>> asked about: on and just past the world boundary, the
\* origin, and on and just inside each obstacle's radius.
QueryPoints ==
    { << 0, 0 >>, << 14, 0 >>, << 15, 0 >>,
      << 980, 0 >>, << 981, 0 >>, << -981, 0 >>, << 0, 981 >>, << 0, -981 >>,
      << 0, -980 >>,
      << 50, 50 >>, << 51, 50 >>, << 60, 41 >>,
      << -60, 185 >>, << -60, 186 >>,
      << 15, 50 >>, << 9, 50 >>, << 10, 50 >>,
      << 82, 59 >>, << 82, 60 >>, << 88, 58 >>,
      << 0, 114 >>, << 0, 115 >>, << 90, -79 >>, << 90, -80 >>,
      << -90, -45 >>, << -90, -46 >>, << -300, 290 >>, << -300, 291 >>,
      << 400, 400 >> }

\* checkCollision(x, z, ignoreId), called with what the refs hold.
CheckCollision ==
    \E p \in QueryPoints, ignoreId \in { NoIgnore } \cup IdsOf(aiPlayers) :
        Step(Store, "checkCollision", << p[1], p[2], ignoreId >>,
             checkCollision(resources, structures, aiPlayers, playerPosRef,
                            p[1], p[2], ignoreId),
             "none")

InitCollision ==
    /\ \/ EmptyWorld
       \/ World(EmptyInv, Dollars(3000), << >>, << >>)
       \/ BuiltWorld
    /\ budget = Budget([ops |-> 0])

NextCollision == CheckCollision

SpecCollision == InitCollision /\ [][NextCollision]_vars

----------------------------------------------------------------------------
(* SpecCombat: the player against an agent.  The hit, claim and pick-up    *)
(* entry points and their callbacks, with an agent the player has already  *)
(* hit twice.                                                              *)

MaxCombatOps == 4      \* calls of the hit, claim and pick-up entry points
MaxLoot == 22          \* ids handed out to loot and to respawned agents

\* What an agent holds after it has placed its rig and then mined trees and
\* coal for nineteen ticks, crafting plastic on the way.
Veteran ==
    [EmptyInv EXCEPT !["PLASTIC"] = 5, !["COAL"] = 4, !["RESIN"] = 1,
                     !["WOOD"] = 11]

\* The agent at its spawn point with the starter kit, or with its rig
\* standing there and the inventory of a veteran.
CombatAgents ==
    { [inventory |-> StarterKit, rigs |-> << >>],
      [inventory |-> Veteran, rigs |-> << RigAt(5, 82, 50, 4) >>] }

InitCombat ==
    /\ \E rolls \in GenRolls, spawns \in SpawnDraws, heading \in SpawnHeadings,
          a \in CombatAgents :
          InitStore(EmptyInv, Dollars(3000), generateResources(rolls, 1), a.rigs,
                    << [generateAIPlayer(Len(rolls) + 1, spawns[1], heading)
                           EXCEPT !.inventory = a.inventory, !.health = 50] >>,
                    Len(rolls) + 2 + Len(a.rigs), << >>)
    /\ budget = Budget([ops |-> MaxCombatOps, ids |-> MaxLoot])

NextCombat ==
    \/ HitPlayer \/ BotRespawn \/ HitNode \/ DestroyNode
    \/ HitStructure \/ ClaimStructure \/ PickupStructure

SpecCombat == InitCombat /\ [][NextCombat]_vars

----------------------------------------------------------------------------
(* SpecBuild: building.  The player holds placeable items they crafted and *)
(* works the build mode: start, rotate, click, cancel, menu, pick up.      *)

MaxBuildOps == 5       \* calls of the build and pick-up entry points
MaxBuilt == 3          \* structures placed

\* Two walls, or a mining rig.
BuildInventories ==
    { [EmptyInv EXCEPT !["WALL"] = 2], [EmptyInv EXCEPT !["MINING_RIG"] = 1] }

InitBuild ==
    /\ \E inv \in BuildInventories : World(inv, Dollars(3000), << >>, << >>)
    /\ budget = Budget([ops |-> MaxBuildOps, ids |-> MaxBuilt,
                        rotate |-> MaxRotation])

NextBuild ==
    \/ StartBuildMode \/ CancelBuildMode \/ RotateBuild \/ ConfirmBuild
    \/ CloseBuild \/ ToggleMenu \/ PickupStructure

SpecBuild == InitBuild /\ [][NextBuild]_vars

----------------------------------------------------------------------------
(* SpecGhost: the build ghost.  While build mode is active each frame      *)
(* snaps the ground point under the crosshair to the 3 m grid.             *)

\* Math.round(x / 3) * 3 that rounds down.
gridSnapDown(x) == 30 * (x \div 30)

\* Math.round(x / 3) * 3 for x in tenths: Math.round rounds to the nearest
\* integer and a tie towards +Infinity.
gridSnap(x) == 30 * ((x + 15) \div 30)

\* newPos of the frame callback for the ground point (x, z).
ghostPosition(x, z) ==
    Pos(gridSnap(x), getTerrainHeight(gridSnap(x), gridSnap(z)), gridSnap(z))

\* Coordinates of ground points, in tenths: grid points, points just off
\* them, points half-way between two grid points, on both sides of 0.
RawCoords == { -104, -45, -16, -15, -14, 0, 14, 15, 16, 45, 52, 104 }

\* One frame of BuildSystem with the ground hit at (x, z); ret is the
\* position the frame stores in ghostPosRef.
GhostFrame ==
    \E x \in RawCoords, z \in RawCoords :
        /\ buildMode.active
        /\ Step(Store, "ghostFrame", << x, z >>, ghostPosition(x, z), "none")

InitGhost ==
    /\ \E inv \in BuildInventories : World(inv, Dollars(3000), << >>, << >>)
    /\ budget = Budget([ops |-> 1])

NextGhost == StartBuildMode \/ GhostFrame

SpecGhost == InitGhost /\ [][NextGhost]_vars

----------------------------------------------------------------------------
(* SpecAgents: the agent loop on agents that have gathered and crafted.    *)

MaxCraftTicks == 2     \* firings of the agent interval

\* What agents hold in the course of a run: the inventories of the crafting
\* family, the starter kit, stone and coal for one silicon, stone and ore
\* competing for one coal, and boards, wire and plastic that make a rig
\* only through the board crafted in the same tick.
AgentInventories ==
    CraftInventories
    \cup { StarterKit,
           [EmptyInv EXCEPT !["STONE"] = 2, !["COAL"] = 1],
           [EmptyInv EXCEPT !["STONE"] = 2, !["METAL_ORE"] = 2, !["COAL"] = 1],
           [EmptyInv EXCEPT !["CIRCUIT_BOARD"] = 2, !["SILICON"] = 2,
                            !["COPPER_WIRE"] = 3, !["PLASTIC"] = 3,
                            !["FRAME"] = 1] }

InitAgents ==
    /\ \E inv \in AgentInventories, rolls \in GenRolls, spawns \in SpawnDraws,
          heading \in SpawnHeadings :
          InitStore(EmptyInv, Dollars(3000), generateResources(rolls, 1), << >>,
                    << [generateAIPlayer(Len(rolls) + 1, spawns[1], heading)
                           EXCEPT !.inventory = inv] >>,
                    Len(rolls) + 2, << >>)
    /\ budget = Budget([ai |-> MaxCraftTicks, ids |-> MaxIds])

NextAgents == AiTick

SpecAgents == InitAgents /\ [][NextAgents]_vars

----------------------------------------------------------------------------
(* SpecNodes: the life of the nodes.  The player hits the nodes of the     *)
(* world and a loose item they dropped; the zero-delay destroyNode         *)
(* callback and the respawn callback are fair: a pending timer that may    *)
(* fire does fire.                                                         *)

MaxNodeHits == 4       \* hitNode calls, and respawns

\* The loose COAL the player dropped where they entered the world.
DroppedCoal ==
    LooseItem(5, 15, getTerrainHeight(15, 50), 50, "COAL")

InitNodes ==
    /\ \E rolls \in GenRolls, spawns \in SpawnDraws, heading \in SpawnHeadings :
          InitStore(EmptyInv, Dollars(3000),
                    Append(generateResources(rolls, 1), DroppedCoal), << >>,
                    generateAIPlayers(Len(rolls) + 1, spawns, heading),
                    Len(rolls) + Len(spawns) + 2, << >>)
    /\ budget = Budget([ops |-> MaxNodeHits, respawn |-> MaxNodeHits])

NextNodes == HitNode \/ DestroyNode \/ RespawnNode

SpecNodes ==
    /\ InitNodes /\ [][NextNodes]_vars
    /\ WF_Pending(DestroyNode) /\ WF_Pending(RespawnNode)

----------------------------------------------------------------------------
(* SpecTeardown: the provider is unmounted in mid-run.  The cleanups of    *)
(* the effects clear the four intervals; the user interface is gone, so no *)
(* entry point is called any more.  No cleanup clears a timeout and no     *)
(* callback asks whether the provider is still mounted, so the callbacks   *)
(* of the timeouts still pending run as before, setters and all.           *)

\* The effect cleanups: clearInterval for the event, market, mining and
\* agent loops.
Teardown ==
    /\ mounted
    /\ mounted' = FALSE
    /\ Commit(Store)
    /\ last' = [op |-> "teardown", arg |-> 0, ret |-> TRUE]
    /\ budget' = budget

MaxLastOps == 2        \* hitNode calls before the teardown

InitTeardown ==
    /\ World(EmptyInv, Dollars(2500), << >>, MountTimers)
    /\ budget = Budget([ops |-> MaxLastOps, ads |-> MaxAds, storm |-> MaxStorms,
                        respawn |-> MaxRespawns])

NextTeardown ==
    \/ mounted /\ HandleDeath
    \/ mounted /\ EventCycle
    \/ mounted /\ HitNode
    \/ Teardown
    \/ LoginAd \/ AdEnd \/ StormEnd \/ MarketNews \/ DestroyNode \/ RespawnNode

SpecTeardown == InitTeardown /\ [][NextTeardown]_vars

----------------------------------------------------------------------------
(* SpecBots: one agent from its spawn on.  It crafts and places its rig,   *)
(* the player claims or breaks the rig and hits the nodes, and the agent   *)
(* seeks, approaches and mines the nodes.                                  *)

MaxBotTicks == 5       \* firings of the agent interval
MaxBotOps == 2         \* hitNode, hitStructure and claimStructure calls

\* Outcomes of world generation: the world of GenRolls, one whose tree
\* stands farther from the spawn point, and one whose only node is out of
\* the agents' sight.
BotRolls ==
    GenRolls
    \cup { << [type |-> "TREE", x |-> 54, z |-> 50],
              [type |-> "COAL", x |-> -60, z |-> 200] >>,
           << [type |-> "COAL", x |-> -600, z |-> -600] >> }

\* Hits of the player on the first node before the agent's first tick.
PriorHits == { 0, 3 }

\* The store after n hits of the player on node id.
RECURSIVE Struck(_, _, _)
Struck(s, id, n) ==
    IF n = 0 THEN s ELSE Struck(hitNode(s, id, FALSE), id, n - 1)

InitBots ==
    /\ \E rolls \in BotRolls, spawns \in SpawnDraws, heading \in SpawnHeadings,
          n \in PriorHits :
          \E res \in { generateResources(rolls, 1) } :
          \E s \in { Struck([inventory |-> EmptyInv, resources |-> res,
                             timers |-> << >>], res[1].id, n) } :
              InitStore(s.inventory, Dollars(3000), s.resources, << >>,
                        generateAIPlayers(Len(rolls) + 1, spawns, heading),
                        Len(rolls) + 2, s.timers)
    /\ budget = Budget([ai |-> MaxBotTicks, ops |-> MaxBotOps, ids |-> MaxIds])

NextBots == AiTick \/ HitNode \/ HitStructure \/ ClaimStructure \/ DestroyNode

SpecBots == InitBots /\ [][NextBots]_vars

----------------------------------------------------------------------------
(* SpecCrowd: two agents in one world.  Both are moved by the same firing  *)
(* of the agent interval, each against the positions and the node list the *)
(* refs held when it fired.                                                *)

MaxCrowdTicks == 3     \* firings of the agent interval

\* Outcomes of the spawn draws and headings of two agents: one that meets
\* the first agent's path at a right angle, and one on the far side of
\* the tree.
CrowdDraws ==
    { << [spawn |-> << 82, 50 >>, heading |-> 6],
         [spawn |-> << 76, 62 >>, heading |-> 4] >>,
      << [spawn |-> << 82, 50 >>, heading |-> 6],
         [spawn |-> << 60, 28 >>, heading |-> 0] >> }

InitCrowd ==
    /\ \E rolls \in GenRolls, draws \in CrowdDraws, n \in PriorHits :
          \E res \in { generateResources(rolls, 1) } :
          \E s \in { Struck([inventory |-> EmptyInv, resources |-> res,
                             timers |-> << >>], res[1].id, n) } :
              InitStore(s.inventory, Dollars(3000), s.resources, << >>,
                        [i \in 1..Len(draws) |->
                            generateAIPlayer(Len(rolls) + i, draws[i].spawn,
                                             draws[i].heading)],
                        Len(rolls) + Len(draws) + 1, s.timers)
    /\ budget = Budget([ai |-> MaxCrowdTicks, ids |-> MaxIds])

NextCrowd == AiTick \/ DestroyNode

SpecCrowd == InitCrowd /\ [][NextCrowd]_vars

----------------------------------------------------------------------------
(* SpecPopulation: the five agents of the mount effect, the player's hits  *)
(* on them and the respawn callbacks.                                      *)

\* generateAIPlayers(5, initResources) of the mount effect.
AgentCount == 5

MaxKills == 3          \* hitPlayer calls

\* Outcomes of the spawn draws of the five agents.
PopulationDraws ==
    { << << 82, 50 >>, << 76, 62 >>, << 60, 28 >>, << 120, -80 >>, << -150, 90 >> >> }

\* The agents some time after world start: the player has hit the first
\* three times and the second twice.
InitPopulation ==
    /\ \E rolls \in GenRolls, spawns \in PopulationDraws, heading \in SpawnHeadings :
          InitStore(EmptyInv, Dollars(3000), generateResources(rolls, 1), << >>,
                    [i \in 1..AgentCount |->
                        [generateAIPlayer(Len(rolls) + i, spawns[i], heading)
                            EXCEPT !.health = IF i = 1 THEN 25
                                              ELSE IF i = 2 THEN 50 ELSE 100]],
                    Len(rolls) + AgentCount + 1, << >>)
    /\ budget = Budget([ops |-> MaxKills, ids |-> 12 * MaxKills])

NextPopulation == HitPlayer \/ BotRespawn

SpecPopulation == InitPopulation /\ [][NextPopulation]_vars

----------------------------------------------------------------------------
(* Properties                                                              *)

\* The elements of a sequence.
Range(seq) == { seq[i] : i \in 1..Len(seq) }

\* The element of seq with the given id.
Entity(seq, id) == CHOOSE e \in Range(seq) : e.id = id

\* Some input of the recipe is held in less than the required count.
Short(inv, recipe) ==
    \E i \in ItemType : inv[i] < Required(recipe, i)

C2_InventoriesNonNegative ==
    /\ \A i \in ItemType : inventory[i] >= 0
    /\ \A b \in 1..Len(aiPlayers) :
          \A i \in ItemType : aiPlayers[b].inventory[i] >= 0

\* The player called dropItem for an item of which none is left, and an
\* agent has crafted its starter kit into a rig and placed the rig.
C2_CountsAtZero ==
    /\ last.op = "dropItem"
    /\ inventory[last.arg] = 0
    /\ \E b \in 1..Len(aiPlayers) :
          /\ aiPlayers[b].inventory["CIRCUIT_BOARD"] = 0
          /\ aiPlayers[b].inventory["MINING_RIG"] = 0

\* C3: craft(recipe) called while some input is held in less than the
\* required count leaves the player's inventory exactly unchanged.
C3_RejectedCraftKeepsInventory ==
    [][(last'.op = "craft" /\ Short(inventory, RECIPES[last'.arg]))
          => inventory' = inventory]_vars

\* craft was called with one input of the recipe short and another input
\* fully available.
C3_PartlyStockedCraft ==
    /\ last.op = "craft"
    /\ Short(inventory, RECIPES[last.arg])
    /\ \E i \in ItemType :
          /\ Required(RECIPES[last.arg], i) > 0
          /\ inventory[i] >= Required(RECIPES[last.arg], i)

\* C4: for every recipe, a craft whose inputs are all available lowers each
\* input's count by the recipe's input count, raises the output's count by
\* recipe.count, and changes no other count.
C4_CraftTransformsExactly ==
    [][(last'.op = "craft" /\ ~Short(inventory, RECIPES[last'.arg]))
          => \A i \in ItemType :
                inventory'[i] = inventory[i]
                                  - Required(RECIPES[last'.arg], i)
                                  + (IF i = RECIPES[last'.arg].output
                                     THEN RECIPES[last'.arg].count ELSE 0)]_vars

\* The three-input CIRCUIT_BOARD recipe was crafted from exactly its inputs.
C4_CircuitBoardCrafted ==
    /\ last.op = "craft"
    /\ last.arg = 5
    /\ inventory = [EmptyInv EXCEPT !["CIRCUIT_BOARD"] = 1]

\* C5: the value craft returns is true exactly when the inventory was
\* transformed, and not true when the craft was rejected for insufficient
\* inputs.
C5_CraftReturnsSuccess ==
    [][last'.op = "craft"
          => (last'.ret <=> ~Short(inventory, RECIPES[last'.arg]))]_vars

\* C6: every node has 0 <= health <= maxHealth; hitNode on a missing id or
\* on a node whose health is 0 changes nothing; each effective hit, by the
\* player or by an agent, lowers the node's health by exactly 1.
C6_NodeHealth ==
    [][/\ \A n \in Range(resources) \cup Range(resources') :
             n.health >= 0 /\ n.health <= n.maxHealth
       /\ last'.op = "hitNode" =>
             IF \E n \in Range(resources) : n.id = last'.arg /\ n.health > 0
             THEN /\ \A n \in Range(resources) :
                        Entity(resources', n.id).health
                          = n.health - (IF n.id = last'.arg THEN 1 ELSE 0)
                  /\ Len(resources') = Len(resources)
             ELSE /\ resources' = resources
                  /\ inventory' = inventory
                  /\ timers' = timers
       /\ last'.op = "aiTick" =>
             /\ Len(resources') = Len(resources)
             /\ \A n \in Range(resources) :
                   LET hits == Cardinality({ b \in DOMAIN last'.ret :
                                               last'.ret[b] = n.id })
                       left == n.health - hits
                   IN  Entity(resources', n.id).health
                         = IF left < 0 THEN 0 ELSE left]_vars

\* hitNode was called on a node that is depleted and hidden.
C6_HitOnDepletedNode ==
    /\ last.op = "hitNode"
    /\ \E n \in Range(resources) :
          n.id = last.arg /\ n.health = 0 /\ n.position = HiddenPos

\* The level of the water plane, in thousandths.
WaterLevel == -3000

\* C7: every respawn of a depleted non-loose node sets its health to
\* maxHealth at a position inside the world boundary and, unless the node
\* is JUNK, not under water, whatever the random draws.
C7_RespawnOnDryLand ==
    last.op = "respawnNode" =>
        \A n \in Range(resources) :
            n.id = last.arg =>
                /\ n.health = n.maxHealth
                /\ n.position[1] >= -980 /\ n.position[1] <= 980
                /\ n.position[3] >= -980 /\ n.position[3] <= 980
                /\ n.type # "JUNK" => n.position[2] >= WaterLevel

\* The square of the distance from (x, z) to a position, in the XZ plane.
Dist2(x, z, position) ==
    (x - position[1]) * (x - position[1]) + (z - position[3]) * (z - position[3])

\* The five rules of the collision oracle, radii in tenths.
FiveRules(x, z, excludeAgentId) ==
    \/ x < -980 \/ x > 980 \/ z < -980 \/ z > 980
    \/ \E n \in Range(resources) :
          /\ n.type # "LOOSE_ITEM"
          /\ Dist2(x, z, n.position)
               < (IF n.type = "TREE" THEN 10 * 10 ELSE 15 * 15)
    \/ \E e \in Range(structures) :
          Dist2(x, z, e.position)
            < (CASE e.type = "FOUNDATION" -> 25 * 25
                 [] e.type = "WALL" -> 20 * 20
                 [] e.type = "MINING_RIG" -> 10 * 10
                 [] OTHER -> 15 * 15)
    \/ \E a \in Range(aiPlayers) :
          a.id # excludeAgentId /\ Dist2(x, z, a.position) < 10 * 10
    \/ /\ excludeAgentId # NoIgnore
       /\ Dist2(x, z, << playerPosRef[1], 0, playerPosRef[3] >>) < 10 * 10

\* C8: checkCollision(x, z, excludeAgentId) returns true exactly when one
\* of the five rules holds, and false otherwise.
C8_CollisionRules ==
    last.op = "checkCollision" =>
        (last.ret <=> FiveRules(last.arg[1], last.arg[2], last.arg[3]))

\* An agent asked about a point 0.9 from the player and clear of everything
\* else, and was told it is blocked.
C8_BlockedByPlayer ==
    /\ last.op = "checkCollision"
    /\ last.arg = << 9, 50, 4 >>
    /\ last.ret

\* C9: hitStructure(id) on an existing structure removes exactly that
\* structure and adds exactly the inputs of the recipe for its kind (one
\* unit of its own kind when there is no such recipe); nothing else changes.
C9_HitStructureRefunds ==
    [][(last'.op = "hitStructure"
          /\ \E e \in Range(structures) : e.id = last'.arg)
          => LET struct == Entity(structures, last'.arg)
                 rs == { k \in 1..Len(RECIPES) : RECIPES[k].output = struct.type }
                 Others(e) == e.id # last'.arg
             IN  /\ structures' = SelectSeq(structures, Others)
                 /\ Len(structures') = Len(structures) - 1
                 /\ \A i \in ItemType :
                       inventory'[i] = inventory[i]
                         + (IF rs = {}
                            THEN (IF i = struct.type THEN 1 ELSE 0)
                            ELSE Required(RECIPES[CHOOSE k \in rs : TRUE], i))]_vars

\* The player destroyed the agent's rig and holds exactly the rig's inputs.
C9_RigRefunded ==
    /\ last.op = "hitStructure"
    /\ structures = << >>
    /\ inventory = [EmptyInv EXCEPT !["CIRCUIT_BOARD"] = 3, !["FRAME"] = 1,
                                    !["PLASTIC"] = 2]

\* C10: cashOut with wallet W > 0 adds W * OWNER_FEE to ownerBalance and
\* zeroes the wallet; with wallet 0 it changes nothing and starts no ad.
C10_CashOut ==
    [][last'.op = "cashOut"
          => IF money.d > 0 \/ money.n > 0
             THEN /\ ownerBalance' = MAdd(ownerBalance, MPercent(money, OWNER_FEE))
                  /\ money' = MZero
             ELSE /\ money' = money
                  /\ ownerBalance' = ownerBalance
                  /\ globalPot' = globalPot
                  /\ activeEvent' = activeEvent
                  /\ timers' = timers]_vars

\* A wallet holding mining income was cashed out during normal play.
C10_CashedOut ==
    /\ last.op = "cashOut"
    /\ MLess(MZero, last.arg)
    /\ money = MZero
    /\ MLess(MZero, ownerBalance)
    /\ activeEvent = "AD_BREAK"

\* The pending payouts: the ad-break timers not yet fired.
IsAdEnd(t) == t.kind = "adEnd"
AdTimers(tms) == Len(SelectSeq(tms, IsAdEnd))

\* A step that calls triggerAd: the login callback, handleDeath, and cashOut
\* with a wallet above 0.
CallsTriggerAd ==
    \/ last'.op \in {"triggerAd", "handleDeath"}
    \/ last'.op = "cashOut" /\ (money.d > 0 \/ money.n > 0)

\* C11: each call of triggerAd schedules exactly one payout, 4 s later, and
\* nothing else schedules or cancels one; a payout makes the pot
\* min(pot + AD_REVENUE * 0.5, MAX_POT) from the pot at payout time and adds
\* AD_REVENUE * 0.5 to ownerBalance, also when ad breaks overlap.
C11_OnePayoutPerAd ==
    [][LET calls == IF CallsTriggerAd THEN 1 ELSE 0
           payouts == IF last'.op = "adPayout" THEN 1 ELSE 0
           half == Dollars(AD_REVENUE \div 2)
           sum == MAdd(globalPot, half)
       IN  /\ AdTimers(timers') = AdTimers(timers) + calls - payouts
           /\ calls = 1 =>
                 timers'[Len(timers')] = Timer("adEnd", 0, 4000, 4000)
           /\ payouts = 1 =>
                 /\ globalPot' = (IF sum.d >= MAX_POT THEN Dollars(MAX_POT) ELSE sum)
                 /\ ownerBalance' = MAdd(ownerBalance, half)]_vars

\* A payout was made while the payout of a later, overlapping ad break is
\* still pending.
C11_OverlappingPayout ==
    /\ last.op = "adPayout"
    /\ AdTimers(timers) >= 1
    /\ ownerBalance.d >= AD_REVENUE \div 2

\* C12: ownerBalance never decreases, and the wallet never decreases except
\* in a cashOut step, which resets it to 0.
C12_BalancesMonotone ==
    [][/\ MLeq(ownerBalance, ownerBalance')
       /\ \/ MLeq(money, money')
          \/ last'.op = "cashOut" /\ money' = MZero]_vars

\* After a cash-out the rigs were mining again: the wallet holds income and
\* the owner holds the fee and the ad share.
C12_EarningAfterCashOut ==
    /\ last.op = "miningTick"
    /\ MLess(MZero, money)
    /\ MLess(Dollars(AD_REVENUE \div 2), ownerBalance)
    /\ ownerBalance.n > 0

\* The environment is in a storm or in an ad break.
Suspended(event) == event = "ACID_RAIN" \/ event = "AD_BREAK"

\* C13: an economic tick that fires during a storm or an ad break changes
\* neither the pot nor the wallet, and the displayed mining rate is 0 in
\* those states.
C13_NoMiningDuringEvents ==
    [][/\ Suspended(activeEvent) => currentMiningRate(Store) = 0
       /\ Suspended(activeEvent') => currentMiningRate(Store)' = 0
       /\ (last'.op = "miningTick" /\ Suspended(activeEvent))
             => globalPot' = globalPot /\ money' = money]_vars

\* The mining interval fired during an ad break, with a rig of the player
\* standing and the pot not empty.
C13_TickDuringAdBreak ==
    /\ last.op = "miningTick"
    /\ activeEvent = "AD_BREAK"
    /\ miningRigs(structures) > 0
    /\ MLess(MZero, globalPot)

\* C14: a tick in the normal state, with perRigRate = BASE_RATE *
\* marketModifier * availableFactor (0.1 when the pot is depleted, else 1.0),
\* makes the pot max(0, pot - perRigRate * all rigs) and adds perRigRate *
\* rigs without an owner to the wallet.
C14_TickArithmetic ==
    [][(last'.op = "miningTick" /\ activeEvent = "NONE")
          => LET factor == IF globalPot.d = 0 /\ globalPot.n = 0 THEN 1 ELSE 10
                 perRigRate == (BASE_MINING_RATE * marketModifier * factor) \div 100
                 all == Cardinality({ i \in 1..Len(structures) :
                                        structures[i].type = "MINING_RIG" })
                 own == Cardinality({ i \in 1..Len(structures) :
                                        /\ structures[i].type = "MINING_RIG"
                                        /\ structures[i].ownerId = NoOwner })
                 left == MSub(globalPot, Nanos(perRigRate * all))
             IN  /\ globalPot' = (IF left.d < 0 THEN MZero ELSE left)
                 /\ money' = MAdd(money, Nanos(perRigRate * own))]_vars

\* With one rig of the player and one of an agent, a first tick at the full
\* rate emptied the pot and a second tick paid the player a tenth of it.
C14_ThrottledIncome ==
    /\ last.op = "miningTick"
    /\ activeEvent = "NONE"
    /\ globalPot = MZero
    /\ marketModifier = 10
    /\ Len(structures) = 2
    /\ money = Nanos(BASE_MINING_RATE + BASE_MINING_RATE \div 10)

C16_AdBreakLastsFourSeconds ==
    [][/\ AdTimers(timers') > 0 => activeEvent' = "AD_BREAK"
       /\ last'.op = "adPayout" => activeEvent' = "NONE"]_vars

\* C17: the state becomes STORM only in a firing of the 30 s scheduler that
\* finds the state NORMAL; a firing that finds an ad break or a storm
\* changes neither the state nor the pending timers.
C17_StormOnlyFromNormal ==
    [][/\ (activeEvent' = "ACID_RAIN" /\ activeEvent # "ACID_RAIN")
             => (last'.op = "eventCycle" /\ activeEvent = "NONE")
       /\ (last'.op = "eventCycle" /\ activeEvent # "NONE")
             => (activeEvent' = activeEvent /\ timers' = timers)]_vars

\* The scheduler fired during an ad break with the draw that starts a
\* storm.
C17_DrawDuringAdBreak ==
    /\ last.op = "eventCycle"
    /\ last.arg = 1
    /\ activeEvent = "AD_BREAK"

\* C18: every storm and every ad break is eventually followed by the normal
\* state, given that pending timers fire and ad breaks are not triggered
\* forever.
C18_EventsEnd == (activeEvent # "NONE") ~> (activeEvent = "NONE")

\* A storm and an ad break have both run and ended, and no timer of either
\* is pending.
C18_BackToNormal ==
    /\ activeEvent = "NONE"
    /\ budget["storm"] = 0
    /\ budget["ads"] = 0
    /\ timers = << >>

\* C19: during an ad break no agent tick changes an agent's position,
\* action, target or inventory or places a structure, and the player's
\* position does not change.
C19_ActorsSuspendedInAdBreak ==
    [][activeEvent = "AD_BREAK"
          => /\ last'.op = "aiTick"
                   => /\ structures' = structures
                      /\ Len(aiPlayers') = Len(aiPlayers)
                      /\ \A i \in 1..Len(aiPlayers) :
                            /\ aiPlayers'[i].position = aiPlayers[i].position
                            /\ aiPlayers'[i].action = aiPlayers[i].action
                            /\ aiPlayers'[i].targetNodeId = aiPlayers[i].targetNodeId
                            /\ aiPlayers'[i].inventory = aiPlayers[i].inventory
             /\ playerPosRef' = playerPosRef]_vars

\* C20: claimStructure(id) clears the owner id of the structure with that
\* id when it has an owner, and changes nothing else of any structure or
\* of the inventory; on a structure without an owner it changes no
\* structure.
C20_ClaimClearsOwner ==
    [][last'.op = "claimStructure"
          => /\ inventory' = inventory
             /\ Len(structures') = Len(structures)
             /\ \A i \in 1..Len(structures) :
                   structures'[i] =
                     IF structures[i].id = last'.arg
                          /\ structures[i].ownerId # NoOwner
                     THEN [structures[i] EXCEPT !.ownerId = NoOwner]
                     ELSE structures[i]]_vars

\* The player's first call claimed the rig an agent had placed.
C20_AgentRigClaimed ==
    /\ last.op = "claimStructure"
    /\ budget["ops"] = MaxOps - 1
    /\ \E e \in Range(structures) :
          e.id = last.arg /\ e.type = "MINING_RIG" /\ e.ownerId = NoOwner


\* C21: pickupStructure(id) on a structure without an owner removes that
\* structure and no other and adds one unit of its kind to the player's
\* inventory; on a structure with an owner it leaves the structures and
\* the inventory as they are.
C21_PickupTakesUnowned ==
    [][(last'.op = "pickupStructure"
          /\ \E e \in Range(structures) : e.id = last'.arg)
          => LET i == CHOOSE k \in 1..Len(structures) :
                          structures[k].id = last'.arg
             IN  IF structures[i].ownerId = NoOwner
                 THEN /\ structures' = RemoveAt(structures, i)
                      /\ inventory' = [inventory EXCEPT
                                           ![structures[i].type] = @ + 1]
                 ELSE /\ structures' = structures
                      /\ inventory' = inventory]_vars

\* The rig an agent placed was claimed and then picked up: the player
\* holds it and no structure stands.
C21_ClaimedRigPickedUp ==
    /\ last.op = "pickupStructure"
    /\ inventory["MINING_RIG"] = 1
    /\ structures = << >>
    /\ budget["ops"] = MaxOps - 2


\* C22: hitNode, hitStructure, hitPlayer, claimStructure and
\* pickupStructure called with an id that names no node, structure or
\* agent respectively (never created, or already removed) leave the
\* resources, structures, agents, inventory and balances as they are, and
\* schedule nothing.
C22_MissingIdChangesNothing ==
    [][LET Names(op, seq) ==
               last'.op = op /\ ~\E e \in Range(seq) : e.id = last'.arg
       IN  (\/ Names("hitNode", resources)
            \/ Names("hitStructure", structures)
            \/ Names("claimStructure", structures)
            \/ Names("pickupStructure", structures)
            \/ Names("hitPlayer", aiPlayers))
           => /\ resources' = resources
              /\ structures' = structures
              /\ aiPlayers' = aiPlayers
              /\ inventory' = inventory
              /\ money' = money
              /\ globalPot' = globalPot
              /\ ownerBalance' = ownerBalance
              /\ timers' = timers]_vars

\* hitPlayer was called for the first agent after that agent was killed
\* and its successor had arrived.
C22_HitAfterKill ==
    /\ last.op = "hitPlayer"
    /\ last.arg = 4
    /\ Len(aiPlayers) = 1
    /\ aiPlayers[1].id # 4
    /\ aiPlayers[1].health = 100


\* C23: confirmBuild(position) called while build mode is active and the
\* player holds at least one unit of the selected kind adds exactly one
\* structure of that kind at that position, with build mode's current
\* rotation and no owner, and lowers the held count of that kind by one;
\* when the count reaches 0 it schedules the callback that switches build
\* mode off, and that callback leaves build mode inactive.
C23_ConfirmBuildPlacesOne ==
    [][/\ (/\ last'.op = "confirmBuild"
           /\ buildMode.active
           /\ buildMode.type # NoType
           /\ inventory[buildMode.type] > 0)
          => /\ Len(structures') = Len(structures) + 1
             /\ SubSeq(structures', 1, Len(structures)) = structures
             /\ LET new == structures'[Len(structures')]
                IN  /\ new.type = buildMode.type
                    /\ new.position = last'.arg
                    /\ new.rotation = buildMode.rotation
                    /\ new.ownerId = NoOwner
                    /\ \A e \in Range(structures) : e.id # new.id
             /\ inventory' = [inventory EXCEPT ![buildMode.type] = @ - 1]
             /\ buildMode' = buildMode
             /\ timers' = IF inventory'[buildMode.type] = 0
                          THEN Append(timers, Timer("closeBuild", 0, 0, 0))
                          ELSE timers
       /\ last'.op = "closeBuild" => buildMode' = BuildOff]_vars

\* The second of two walls was placed, one of them turned, and the
\* callback has switched build mode off.
C23_LastWallPlaced ==
    /\ last.op = "closeBuild"
    /\ ~buildMode.active
    /\ inventory["WALL"] = 0
    /\ Len(structures) = 2
    /\ \E e \in Range(structures) : e.type = "WALL" /\ e.rotation # 0


\* C24: confirmBuild called while build mode is inactive, or while the
\* player holds none of the selected kind, creates no structure and leaves
\* the inventory as it is.
C24_RejectedBuildChangesNothing ==
    [][(/\ last'.op = "confirmBuild"
        /\ \/ ~buildMode.active
           \/ buildMode.type = NoType
           \/ inventory[buildMode.type] = 0)
          => /\ structures' = structures
             /\ inventory' = inventory
             /\ timers' = timers]_vars

\* The last rig was placed and, before the callback has switched build
\* mode off, confirmBuild was called again at the other position.
C24_SecondClickAfterLastUnit ==
    /\ last.op = "confirmBuild"
    /\ buildMode.active
    /\ inventory[buildMode.type] = 0
    /\ Len(structures) = 1
    /\ structures[1].position # last.arg
    /\ \E i \in 1..Len(timers) : timers[i].kind = "closeBuild"


\* C25: the ghost position computed from a raw ground point (x, z) is
\* (sx, terrainHeight(sx, sz), sz) where sx and sz are the multiples of 3
\* nearest to x and to z; the point (10.4, 5.2) snaps to (9, 6).
C25_GhostSnapsToGrid ==
    last.op = "ghostFrame" =>
        LET x == last.arg[1]
            z == last.arg[2]
            sx == last.ret[1]
            sz == last.ret[3]
        IN  /\ sx % 30 = 0 /\ sz % 30 = 0
            /\ \A k \in -5..5 : Abs(sx - x) <= Abs(30 * k - x)
            /\ \A k \in -5..5 : Abs(sz - z) <= Abs(30 * k - z)
            /\ last.ret[2] = getTerrainHeight(sx, sz)
            /\ (x = 104 /\ z = 52) => (sx = 90 /\ sz = 60)

\* The frame snapped the ground point (10.4, 5.2) to the grid point (9, 6).
C25_ExampleSnapped ==
    /\ last.op = "ghostFrame"
    /\ last.arg = << 104, 52 >>
    /\ last.ret = Pos(90, getTerrainHeight(90, 60), 60)


\* The catalog recipes from the k-th to the seventh, each crafted once in
\* turn from what the one before left.
RECURSIVE CatalogChain(_, _)
CatalogChain(inv, k) ==
    IF k > 7 THEN inv
    ELSE CatalogChain(craftInventory(inv, RECIPES[k]), k + 1)

\* C26: in one agent tick the auto-craft considers the catalog's recipes
\* for silicon, steel, copper wire, plastic, circuit board, frame and
\* mining rig once each in that order, and applies each exactly when the
\* inventory left by the preceding ones holds its inputs, with the
\* catalog's input and output counts.  (Stated on the agents that neither
\* place a rig nor mine in the tick, so that the tick's only inventory
\* change is the crafting.)  An agent holding {STONE: 2, COAL: 1} ends with
\* SILICON 1, STONE 0, COAL 0.
C26_AutoCraftFollowsCatalog ==
    [][last'.op = "aiTick"
          => /\ << "SILICON", "STEEL", "COPPER_WIRE", "PLASTIC", "CIRCUIT_BOARD",
                   "FRAME", "MINING_RIG" >>
                  = [k \in 1..7 |-> RECIPES[k].output]
             /\ \A i \in 1..Len(aiPlayers) :
                   LET want == CatalogChain(aiPlayers[i].inventory, 1)
                       got == aiPlayers'[i].inventory
                   IN  /\ (last'.ret[i] = NoTarget /\ structures' = structures)
                             => got = want
                       /\ aiPlayers[i].inventory
                            = [EmptyInv EXCEPT !["STONE"] = 2, !["COAL"] = 1]
                             => /\ got["SILICON"] = 1
                                /\ got["STONE"] = 0
                                /\ got["COAL"] = 0]_vars

\* An agent has crafted a circuit board and, from it, a mining rig in one
\* tick and still holds the rig.
C26_BoardThenRig ==
    /\ last.op = "aiTick"
    /\ budget["ai"] = MaxCraftTicks - 1
    /\ aiPlayers[1].inventory
         = [EmptyInv EXCEPT !["MINING_RIG"] = 1]


\* C27: a node hit made for an agent never changes the player's inventory,
\* whether or not it depletes the node; a hit by the player credits the
\* player exactly when it depletes the node: one unit of the node's drop,
\* and one RESIN more for a tree.
C27_AgentHitsPayNoPlayer ==
    [][/\ last'.op = "aiTick" => inventory' = inventory
       /\ last'.op = "hitNode" =>
             LET hit == { n \in Range(resources) :
                            n.id = last'.arg /\ n.health = 1 }
             IN  \A i \in ItemType :
                    inventory'[i] = inventory[i]
                      + Cardinality({ n \in hit : n.drop = i })
                      + Cardinality({ n \in hit : n.type = "TREE" /\ i = "RESIN" })]_vars

\* An agent's hit has depleted a node the player had worn down, and the
\* player holds nothing.
C27_AgentDepletedNode ==
    /\ last.op = "aiTick"
    /\ \E n \in Range(resources) :
          /\ n.health = 0
          /\ last.ret[1] = n.id
          /\ \E i \in 1..Len(timers) :
                timers[i].kind = "destroyNode" /\ timers[i].arg = n.id
    /\ inventory = EmptyInv


\* C28: hitPlayer lowers the agent's health by 25; when that leaves it at 0
\* or below, the agent is removed from the agent list, for each item it
\* holds with count c > 0 exactly min(c, 10) loose-item nodes of that item
\* are created within 0.75 of its position, and one respawn is scheduled
\* 30 s later, which adds exactly one new agent.
C28_HitPlayerKillsAndSpills ==
    [][/\ (last'.op = "hitPlayer"
             /\ \E b \in Range(aiPlayers) : b.id = last'.arg)
          => LET bot == Entity(aiPlayers, last'.arg)
                 loot == SubSeq(resources', Len(resources) + 1, Len(resources'))
             IN  /\ SubSeq(resources', 1, Len(resources)) = resources
                 /\ IF bot.health - 25 > 0
                    THEN /\ Entity(aiPlayers', bot.id)
                              = [bot EXCEPT !.health = bot.health - 25]
                         /\ Len(aiPlayers') = Len(aiPlayers)
                         /\ loot = << >>
                         /\ timers' = timers
                    ELSE /\ aiPlayers' = WithoutId(aiPlayers, bot.id)
                         /\ \A i \in ItemType :
                               Cardinality({ k \in 1..Len(loot) : loot[k].drop = i })
                                 = IF bot.inventory[i] < 10
                                   THEN bot.inventory[i] ELSE 10
                         /\ \A k \in 1..Len(loot) :
                               /\ loot[k].type = "LOOSE_ITEM"
                               /\ loot[k].health = 1
                               /\ Abs(loot[k].position[1] - bot.position[1]) <= 8
                               /\ Abs(loot[k].position[3] - bot.position[3]) <= 8
                         /\ timers' = Append(timers,
                                             Timer("botRespawn", 0, 30000, 30000))
       /\ last'.op = "botRespawn"
          => /\ Len(aiPlayers') = Len(aiPlayers) + 1
             /\ SubSeq(aiPlayers', 1, Len(aiPlayers)) = aiPlayers
             /\ aiPlayers'[Len(aiPlayers')].health = 100
             /\ Len(timers') = Len(timers) - 1]_vars

\* The agent that held 11 WOOD was killed, ten loose WOOD lie in the world
\* and its successor has arrived.
C28_VeteranKilledAndReplaced ==
    /\ last.op = "botRespawn"
    /\ Len(aiPlayers) = 1
    /\ aiPlayers[1].id # 4
    /\ Cardinality({ k \in 1..Len(resources) :
                       resources[k].type = "LOOSE_ITEM"
                         /\ resources[k].drop = "WOOD" }) = 10


\* C29: a loose-item node depleted by a hit of the player credits its item
\* once and is removed by the callback of that hit; no node is ever added
\* under an id that was handed out before, so it never reappears.  A node
\* of any other type is never removed from the node list, and whenever its
\* health is 0 it is eventually back at full health.
C29_LooseItemsGoNodesReturn ==
    /\ [][/\ last'.op = "hitNode" =>
                \A n \in Range(resources) :
                    (n.id = last'.arg /\ n.type = "LOOSE_ITEM") =>
                        /\ inventory' = IF n.health > 0
                                        THEN [inventory EXCEPT ![n.drop] = @ + 1]
                                        ELSE inventory
                        /\ n.health > 0 =>
                              timers' = Append(timers,
                                               Timer("destroyNode", n.id, 0, 0))
          /\ last'.op = "destroyNode" =>
                \A n \in Range(resources) :
                    (n.id = last'.arg /\ n.type = "LOOSE_ITEM") =>
                        /\ ~\E m \in Range(resources') : m.id = n.id
                        /\ Len(timers') = Len(timers) - 1
          /\ \A m \in Range(resources') :
                m.id < nextId => \E n \in Range(resources) : n.id = m.id
          /\ \A n \in Range(resources) :
                n.type # "LOOSE_ITEM" => \E m \in Range(resources') : m.id = n.id]_vars
    /\ \A id \in 1..2 :
          (\E n \in Range(resources) : n.id = id /\ n.health = 0)
             ~> (\E n \in Range(resources) : n.id = id /\ n.health = n.maxHealth)

\* The dropped coal was picked up and is gone, and the coal node the
\* player then depleted has respawned.
C29_PickedUpAndRespawned ==
    /\ last.op = "respawnNode"
    /\ ~\E n \in Range(resources) : n.type = "LOOSE_ITEM"
    /\ inventory["COAL"] = 2
    /\ \E n \in Range(resources) :
          n.type = "COAL" /\ n.health = n.maxHealth /\ n.id = last.arg


\* C30: once the provider is torn down no timer callback is left to run:
\* every one-shot timer still pending is cancelled at teardown, as the
\* intervals are.
C30_TimersCancelledAtTeardown ==
    ~mounted => timers = << >>


\* C31: a market headline is logged only when no event is active at the
\* moment the market response is applied: no MARKET entry is logged while
\* the environment is in a storm or an ad break.
C31_MarketLogOnlyInNormal ==
    (last.op = "marketNews" /\ last.ret) => activeEvent = "NONE"


\* The needs of an agent in the order the spec lists them: the item that
\* is short, the amount below which it is short, the node type to seek.
NeedList ==
    << << "COAL", 5, "COAL" >>, << "RESIN", 5, "TREE" >>,
       << "STONE", 5, "STONE" >>, << "METAL_ORE", 5, "METAL" >>,
       << "COPPER_ORE", 2, "COPPER" >>, << "SCRAP", 2, "JUNK" >> >>

\* The first need of the list that inv is short of, NoType for none.
FirstNeed(inv) ==
    LET short == { k \in 1..Len(NeedList) : inv[NeedList[k][1]] < NeedList[k][2] }
    IN  IF short = {} THEN NoType
        ELSE NeedList[CHOOSE k \in short : \A j \in short : k <= j][3]

\* Inventories on both sides of every threshold of the list.
NeedSamples ==
    { [EmptyInv EXCEPT !["COAL"] = f[1], !["RESIN"] = f[2], !["STONE"] = f[3],
                       !["METAL_ORE"] = f[4], !["COPPER_ORE"] = f[5],
                       !["SCRAP"] = f[6]] :
        f \in {4, 5} \X {4, 5} \X {4, 5} \X {4, 5} \X {1, 2} \X {1, 2} }

\* C32: an agent that targets (IDLE, or MINING with no target, after its
\* crafting and building) needs the first of coal < 5 -> COAL, resin < 5 ->
\* TREE, stone < 5 -> STONE, metal ore < 5 -> METAL, copper ore < 2 ->
\* COPPER, scrap < 2 -> JUNK; it takes a harvestable non-loose node of the
\* needed type within 50 units if there is one, otherwise a harvestable
\* non-loose node within 30 units, never a depleted or loose one; and it
\* leaves the targeting step MOVING whether or not it found a target.
C32_TargetingFollowsNeeds ==
    /\ \A inv \in NeedSamples : neededType(inv) = FirstNeed(inv)
    /\ \A i \in 1..Len(aiPlayers), c \in BotChoices :
          \E bot \in { aiPlayers[i] } :
          \E b \in { botBuild(bot, c) } :
          \E t \in { botTarget(bot, c, resources, b) } :
              LET need == FirstNeed(b.inventory)
                  Live(r) == r.health > 0 /\ r.type # "LOOSE_ITEM"
                  Apart2(r) == (r.position[1] - bot.position[1])
                                  * (r.position[1] - bot.position[1])
                                + (r.position[3] - bot.position[3])
                                  * (r.position[3] - bot.position[3])
                  nodes == { resources[k] : k \in 1..Len(resources) }
                  needed == { r \in nodes : Live(r) /\ Apart2(r) < 500 * 500
                                              /\ (need = NoType \/ r.type = need) }
                  anyNode == { r \in nodes : Live(r) /\ Apart2(r) < 300 * 300 }
                  pool == IF needed # {} THEN needed ELSE anyNode
              IN  (b.action = "IDLE"
                     \/ (b.action = "MINING" /\ bot.targetNodeId = NoTarget))
                  => /\ t.action = "MOVING"
                     /\ IF pool = {} THEN t.targetNodeId = bot.targetNodeId
                        ELSE \E r \in pool : t.targetNodeId = r.id

\* An agent short of resin, with coal in sight, has just chosen the tree.
C32_ChoseTheTree ==
    /\ last.op = "aiTick"
    /\ \E i \in 1..Len(aiPlayers) :
          /\ aiPlayers[i].action \in {"MOVING", "MINING"}
          /\ aiPlayers[i].inventory["COAL"] = 5
          /\ aiPlayers[i].inventory["RESIN"] = 0
          /\ aiPlayers[i].inventory["MINING_RIG"] = 0
          /\ \E k \in 1..Len(resources) :
                /\ resources[k].id = aiPlayers[i].targetNodeId
                /\ resources[k].type = "TREE"
          /\ \E k \in 1..Len(resources) :
                resources[k].type = "COAL" /\ resources[k].health > 0


\* C33: in a tick, a MOVING agent whose target is harvestable and within
\* 2.0 units becomes MINING where it stands; a MOVING agent whose target is
\* missing or has health <= 0 loses the target and becomes IDLE where it
\* stands; a MINING agent whose target is missing or depleted becomes IDLE
\* with no target.  An agent that becomes MINING in a tick does not move in
\* that tick.
C33_ArriveOrGiveUp ==
    [][last'.op = "aiTick" =>
          \A i \in 1..Len(aiPlayers) :
              LET bot == aiPlayers[i]
                  after == aiPlayers'[i]
                  nodes == { resources[k] : k \in 1..Len(resources) }
                  target == { r \in nodes : r.id = bot.targetNodeId }
                  live == \E r \in target : r.health > 0
                  close == \E r \in target :
                               (r.position[1] - bot.position[1])
                                   * (r.position[1] - bot.position[1])
                                 + (r.position[3] - bot.position[3])
                                   * (r.position[3] - bot.position[3]) < 20 * 20
              IN  /\ (bot.action = "MOVING" /\ bot.targetNodeId # NoTarget
                        /\ live /\ close)
                     => after.action = "MINING" /\ after.position = bot.position
                  /\ (bot.action = "MOVING" /\ bot.targetNodeId # NoTarget /\ ~live)
                     => /\ after.action = "IDLE"
                        /\ after.targetNodeId = NoTarget
                        /\ after.position = bot.position
                  /\ (bot.action = "MINING" /\ bot.targetNodeId # NoTarget /\ ~live)
                     => after.action = "IDLE" /\ after.targetNodeId = NoTarget
                  /\ (bot.action # "MINING" /\ after.action = "MINING")
                     => after.position = bot.position]_vars



\* An agent on its way to a tree that the player felled has given it up:
\* it is IDLE with no target, still headed for the tree and farther than
\* 2.0 units from where it stands.
C33_GaveUpOnTheWay ==
    /\ last.op = "aiTick"
    /\ \E i \in 1..Len(aiPlayers), k \in 1..Len(resources) :
          /\ aiPlayers[i].action = "IDLE"
          /\ aiPlayers[i].targetNodeId = NoTarget
          /\ aiPlayers[i].rotation = -2
          /\ resources[k].type = "TREE"
          /\ resources[k].health = 0
          /\ resources[k].position[1] = 54
          /\ ~Near(aiPlayers[i].position[1], aiPlayers[i].position[3],
                   resources[k].position, 20)


\* C34: an agent that moves takes the full step of 0.4 units along its
\* heading if the collision oracle reports it unblocked for that agent,
\* else the X-only step, else the Z-only step; if all three are blocked it
\* stays where it is, its rotation grows by a quarter turn and it becomes
\* IDLE.  An agent never moves to a point outside the world boundary or to
\* a point the oracle reported blocked.
C34_SlideOrTurn ==
    [][last'.op = "aiTick" =>
          \A i \in 1..Len(aiPlayers) :
              LET bot == aiPlayers[i]
                  after == aiPlayers'[i]
                  x == bot.position[1]
                  z == bot.position[3]
                  Blocked(px, pz) ==
                      checkCollision(resources, structures, aiPlayers,
                                     playerPosRef, px, pz, bot.id)
                  At(px, pz) == after.position[1] = px /\ after.position[3] = pz
                  \* the outcome of a move attempted along heading h
                  Slide(h) ==
                      LET nextX == x + step(h)[1]
                          nextZ == z + step(h)[2]
                      IN  IF ~Blocked(nextX, nextZ) THEN At(nextX, nextZ)
                          ELSE IF ~Blocked(nextX, z) THEN At(nextX, z)
                          ELSE IF ~Blocked(x, nextZ) THEN At(x, nextZ)
                          ELSE /\ At(x, z)
                               /\ after.rotation = h + 2
                               /\ after.action = "IDLE"
                  nodes == { resources[k] : k \in 1..Len(resources) }
                  target == { r \in nodes : r.id = bot.targetNodeId }
              IN  /\ ~At(x, z)
                     => /\ ~Blocked(after.position[1], after.position[3])
                        /\ Abs(after.position[1]) <= 980
                        /\ Abs(after.position[3]) <= 980
                        /\ Slide(after.rotation)
                  /\ (bot.action = "MOVING" /\ bot.targetNodeId = NoTarget)
                     => Slide(bot.rotation)
                  /\ bot.action = "MOVING"
                     => \A r \in target :
                            (r.health > 0 /\ ~Near(x, z, r.position, 20))
                            => Slide(atan2(r.position[1] - x, r.position[3] - z))]_vars

\* An agent hemmed in has turned a quarter from its heading of 6 and gone
\* IDLE where it stood.
C34_TurnedWhereItStood ==
    /\ last.op = "aiTick"
    /\ \E i \in 1..Len(aiPlayers) :
          /\ aiPlayers[i].action = "IDLE"
          /\ aiPlayers[i].rotation = 8
          /\ aiPlayers[i].position[1] = 78


\* C35: an agent that holds a mining rig once it has crafted is set MOVING
\* in that tick (it seeks no target, and ends the tick MOVING unless the
\* movement step that follows turns it IDLE or MINING); a rig it places is
\* a MINING_RIG at the position the agent had, owned by that agent, and
\* costs the agent exactly one rig; no agent tick raises the player's
\* mining-rig count, which only a claim or a placement of the player does.
C35_AgentRigs ==
    [][/\ last'.op = "aiTick" =>
          /\ \A i \in 1..Len(aiPlayers), c \in BotChoices :
                autoCraft(aiPlayers[i].inventory, 1)["MINING_RIG"] > 0
                => botBuild(aiPlayers[i], c).action = "MOVING"
          /\ \A i \in 1..Len(aiPlayers) :
                LET bot == aiPlayers[i]
                    after == aiPlayers'[i]
                    held == autoCraft(bot.inventory, 1)["MINING_RIG"]
                    new == { structures'[k] :
                                k \in (Len(structures) + 1)..Len(structures') }
                    mine == { e \in new : e.ownerId = bot.id }
                IN  /\ (held > 0 /\ bot.targetNodeId = NoTarget)
                       => /\ after.targetNodeId = NoTarget
                          /\ \/ after.action = "MOVING"
                             \/ /\ after.action = "IDLE"
                                /\ after.rotation = bot.rotation + 2
                                /\ after.position = bot.position
                    /\ \A e \in mine :
                          e.type = "MINING_RIG" /\ e.position = bot.position
                    /\ after.inventory["MINING_RIG"] = held - Cardinality(mine)
                    /\ Cardinality(mine) <= 1
                    /\ held = 0 => mine = {}
          /\ SubSeq(structures', 1, Len(structures)) = structures
          /\ \A k \in (Len(structures) + 1)..Len(structures') :
                \E i \in 1..Len(aiPlayers) :
                    structures'[k].ownerId = aiPlayers[i].id
          /\ miningRigs(structures') = miningRigs(structures)
       /\ miningRigs(structures') > miningRigs(structures)
          => last'.op \in {"claimStructure", "confirmBuild"}]_vars

\* An agent has placed its rig where it stood and walked on; the rig is
\* the agent's and the player has no rig.
C35_RigPlacedAndOwned ==
    /\ last.op = "aiTick"
    /\ miningRigs(structures) = 0
    /\ \E i \in 1..Len(aiPlayers), k \in 1..Len(structures) :
          /\ structures[k].type = "MINING_RIG"
          /\ structures[k].ownerId = aiPlayers[i].id
          /\ structures[k].position[1] = 82
          /\ aiPlayers[i].position[1] = 78
          /\ aiPlayers[i].action = "MOVING"
          /\ aiPlayers[i].inventory["MINING_RIG"] = 0



\* C36: a depleted node (health 0), in place or hidden, never makes
\* checkCollision answer true: a point the oracle reports blocked is also
\* blocked when the depleted nodes are left out.
C36_DepletedNodesDoNotBlock ==
    LET IsLive(r) == r.health > 0
    IN  (last.op = "checkCollision" /\ last.ret)
        => checkCollision(SelectSeq(resources, IsLive), structures, aiPlayers,
                          playerPosRef, last.arg[1], last.arg[2], last.arg[3])


\* C37: placing a rig never immobilises the agent that placed it: an agent
\* that owns a placed rig has, along some heading, a full, X-only or Z-only
\* step to another point that the collision oracle reports unblocked.
C37_PlacerCanStep ==
    \A i \in 1..Len(aiPlayers) :
        LET bot == aiPlayers[i]
            x == bot.position[1]
            z == bot.position[3]
            Free(px, pz) ==
                /\ << px, pz >> # << x, z >>
                /\ ~checkCollision(resources, structures, aiPlayers,
                                   playerPosRef, px, pz, bot.id)
        IN  (\E k \in 1..Len(structures) : structures[k].ownerId = bot.id)
            => \E h \in 0..7 :
                   \/ Free(x + step(h)[1], z + step(h)[2])
                   \/ Free(x + step(h)[1], z)
                   \/ Free(x, z + step(h)[2])


\* C38: two distinct agents that are not within 1.0 units of each other
\* before an agent tick are not within 1.0 units of each other after it.
C38_AgentsKeepApart ==
    [][last'.op = "aiTick" =>
          \A i \in 1..Len(aiPlayers), j \in 1..Len(aiPlayers) :
              (i # j /\ ~Near(aiPlayers[i].position[1], aiPlayers[i].position[3],
                              aiPlayers[j].position, 10))
              => ~Near(aiPlayers'[i].position[1], aiPlayers'[i].position[3],
                       aiPlayers'[j].position, 10)]_vars

\* C39: in an agent tick the agents that credit themselves a unit of a
\* node's drop are no more than the health points the node loses.
C39_CreditsMatchHealth ==
    [][last'.op = "aiTick" =>
          \A k \in 1..Len(resources) :
              LET node == resources[k]
                  creditors ==
                      { i \in 1..Len(aiPlayers) :
                          /\ aiPlayers'[i].targetNodeId = node.id
                          /\ aiPlayers'[i].inventory[node.drop]
                               = autoCraft(aiPlayers[i].inventory, 1)[node.drop] + 1 }
              IN  Cardinality(creditors) <= node.health - resources'[k].health]_vars


\* The pending agent respawns.
IsBotRespawn(t) == t.kind = "botRespawn"
RespawnTimers(tms) == Len(SelectSeq(tms, IsBotRespawn))

\* C40: after world start the live agents and the pending agent respawns
\* together are always five: a death schedules exactly one respawn, a
\* respawn adds exactly one agent, and a hit on an id that is gone changes
\* neither.
C40_PopulationIsFive ==
    Len(aiPlayers) + RespawnTimers(timers) = 5

\* The player has killed two agents; one of them has been replaced and the
\* respawn of the other is pending.
C40_OneBackOneToCome ==
    /\ last.op = "botRespawn"
    /\ Len(aiPlayers) = 4
    /\ RespawnTimers(timers) = 1
    /\ \E i \in 1..Len(aiPlayers) :
          aiPlayers[i].id > 3 + AgentCount /\ aiPlayers[i].health = 100

====
